---- MODULE Spec2Model ----
(***************************************************************************)
(* A model of the text-position-aware core of json-lint: the JSON diff     *)
(* engine of DiffManager (src/js/ui/diff.js) and the error locator of      *)
(* JSONLinter (src/js/linter.js).                                          *)
(***************************************************************************)
EXTENDS Integers, Sequences, FiniteSets, TLC

VARIABLES
    leftObj,        \* JSON.parse of the left editor's content
    rightObj,       \* JSON.parse of the right editor's content
    isCompareMode,  \* DiffManager.isCompareMode
    diffResults,    \* DiffManager.diffResults (isNull before the first comparison)
    leftContent,    \* the text of the left editor (leftEditor.getValue())
    rightContent,   \* the text of the right editor (rightEditor.getValue())
    leftMarks,      \* the marks of the left editor (leftEditor.getAllMarks())
    rightMarks,     \* the marks of the right editor
    content,        \* the text handed to JSONLinter.validate (its jsonString)
    parser,         \* what the JSON parser does with content: returns or throws an error
    betterErrors,   \* typeof JSONParseBetterErrors !== 'undefined'
    validation,     \* the call of validate: not made yet, returned a result, or threw
    editorValue,    \* the text of the main editor (ui.getValue())
    jsonData,       \* JSON.parse of the main editor's text
    treeMode,       \* ui.treeMode
    treeNodeMap,    \* ui.treeNodeMap: the line map of the tree view
    treeView,       \* the nodes of the tree view, each with its data-line
    typedText,      \* the text of the main editor while it is typed in
    debounceTimer,  \* ui.debounceTimer: the handle of the last timer armed, 0 for null
    timers,         \* the timers of the window that are armed: handle and due time
    now,            \* the time of the event loop, in ms
    changeLog,      \* the 'change' events of the main editor so far: time and text
    validations,    \* the runs of validateJSON from the timer: time, text read, changes seen
    currentFormat,  \* ui.currentFormat
    status,         \* the status element: its text and its type
    toast,          \* the last toast shown ("" before the first)
    diffBtnDisabled,     \* diffBtn.disabled
    isDiffMode,          \* DiffManager.isDiffMode
    treeToggleDisabled,  \* treeModeToggle.disabled
    convertDisabled,     \* convertDropdown.disabled
    originalContent,     \* ui.originalContent
    diffOriginalContent  \* DiffManager.originalContent

diffVars == <<leftObj, rightObj, isCompareMode, diffResults,
              leftContent, rightContent, leftMarks, rightMarks>>
lintVars == <<content, parser, betterErrors, validation>>
treeVars == <<editorValue, jsonData, treeMode, treeNodeMap, treeView>>
editVars == <<typedText, debounceTimer, timers, now, changeLog, validations>>
pageVars == <<currentFormat, status, toast, diffBtnDisabled, isDiffMode,
              treeToggleDisabled, convertDisabled, originalContent, diffOriginalContent>>
vars == <<diffVars, lintVars, treeVars, editVars, pageVars>>

-----------------------------------------------------------------------------
(* JSON values as JavaScript sees them.  A value is a record with its kind  *)
(* and payload; an object keeps its entries in insertion order.  A value of *)
(* kind "function" is what a property inherited from Object.prototype      *)
(* holds (it never occurs inside a document).                               *)

Null == [type |-> "null", val |-> "null"]
Bool(b) == [type |-> "boolean", val |-> b]
Num(n) == [type |-> "number", val |-> n]
Str(s) == [type |-> "string", val |-> s]
Arr(items) == [type |-> "array", val |-> items]
Entry(k, v) == [key |-> k, value |-> v]
Obj(entries) == [type |-> "object", val |-> entries]
Function(name) == [type |-> "function", val |-> name]

\* typeof v
TypeOf(v) == IF v.type \in {"null", "array", "object"} THEN "object" ELSE v.type

\* Array.isArray(v)
IsArray(v) == v.type = "array"

\* The names every object and array inherits a property for (of those the
\* documents of the model use as keys).
PrototypeKeys == {"constructor"}

\* Object.keys(v), v an object or an array
ObjectKeys(v) ==
    IF v.type = "array" THEN [i \in 1..Len(v.val) |-> ToString(i - 1)]
    ELSE [i \in 1..Len(v.val) |-> v.val[i].key]

\* Object.prototype.hasOwnProperty.call(v, key)
HasOwn(v, key) == \E i \in 1..Len(v.val) : ObjectKeys(v)[i] = key

\* key in v
HasProperty(v, key) == HasOwn(v, key) \/ key \in PrototypeKeys

\* v[key], for a key with (key in v)
Get(v, key) ==
    IF HasOwn(v, key)
    THEN LET i == CHOOSE j \in 1..Len(v.val) : ObjectKeys(v)[j] = key
         IN  IF v.type = "array" THEN v.val[i] ELSE v.val[i].value
    ELSE Function(key)

\* keysB.includes(key)
Includes(keys, key) == \E i \in 1..Len(keys) : keys[i] = key

\* [...new Set(keys)]: the first occurrence of each key, in order
RECURSIVE SetOrder(_)
SetOrder(keys) ==
    IF keys = <<>> THEN <<>>
    ELSE LET front == SetOrder(SubSeq(keys, 1, Len(keys) - 1))
             last == keys[Len(keys)]
         IN  IF Includes(front, last) THEN front ELSE Append(front, last)

-----------------------------------------------------------------------------
(* DiffManager.deepEqual *)

\* deepEqual without its structural part: strict equality only, which holds of no
\* two parsed containers.
deepEqualStrict(a, b) == a.type \notin {"array", "object"} /\ a = b

RECURSIVE deepEqual(_, _)
deepEqual(a, b) ==
    IF a.type \notin {"array", "object"} /\ a = b THEN TRUE      \* a === b
    ELSE IF a.type = "null" \/ b.type = "null" THEN FALSE        \* == null
    ELSE IF TypeOf(a) # TypeOf(b) THEN FALSE
    ELSE IF IsArray(a) /\ IsArray(b) THEN
        /\ Len(a.val) = Len(b.val)
        /\ \A i \in 1..Len(a.val) : deepEqual(a.val[i], b.val[i])
    ELSE IF TypeOf(a) = "object" THEN
        LET keysA == ObjectKeys(a)
            keysB == ObjectKeys(b)
        IN  /\ Len(keysA) = Len(keysB)
            /\ \A i \in 1..Len(keysA) :
                  /\ Includes(keysB, keysA[i])
                  /\ deepEqual(Get(a, keysA[i]), Get(b, keysA[i]))
    ELSE FALSE

-----------------------------------------------------------------------------
(* DiffManager.deepDiff, diffObjects and diffArrays *)

NoChanges == [added |-> <<>>, removed |-> <<>>, modified |-> <<>>, unchanged |-> <<>>]

\* path || 'root'
PathOrRoot(path) == IF path = "" THEN "root" ELSE path

\* path ? `${path}[${index}]` : `[${index}]`
IndexPath(path, index) ==
    IF path # "" THEN path \o "[" \o ToString(index) \o "]"
    ELSE "[" \o ToString(index) \o "]"

\* path ? `${path}.${key}` : key
KeyPath(path, key) == IF path # "" THEN path \o "." \o key ELSE key

RECURSIVE deepDiff(_, _, _)

\* The inner loop scanning the right items from the last to the first.
LastUnusedMatch(item, right, usedR) ==
    LET matches == {j \in 1..Len(right.val) :
                        j \notin usedR /\ deepEqual(item, right.val[j])}
    IN  IF matches = {} THEN 0
        ELSE CHOOSE m \in matches : \A n \in matches : m >= n

\* The inner loop without its test of the right item's `used` flag.
FirstMatchIgnoringUsed(item, right, usedR) ==
    LET matches == {j \in 1..Len(right.val) : deepEqual(item, right.val[j])}
    IN  IF matches = {} THEN 0
        ELSE CHOOSE m \in matches : \A n \in matches : m <= n

\* The inner loop looking at the first right item only.
FirstItemOnlyMatch(item, right, usedR) ==
    IF Len(right.val) >= 1 /\ 1 \notin usedR /\ deepEqual(item, right.val[1]) THEN 1
    ELSE 0

\* The inner loop of the first pass of diffArrays: the first right index (1-based
\* here) that is not used and holds an item deep-equal to item, or 0 if the loop
\* ends without a match.
FirstUnusedMatch(item, right, usedR) ==
    LET matches == {j \in 1..Len(right.val) :
                        j \notin usedR /\ deepEqual(item, right.val[j])}
    IN  IF matches = {} THEN 0
        ELSE CHOOSE m \in matches : \A n \in matches : m <= n

\* The first pass of diffArrays from left index i on (1-based here): usedL and
\* usedR are the indices whose `used` flag is set.
RECURSIVE FirstPass(_, _, _, _, _, _, _)
FirstPass(left, right, path, i, usedL, usedR, unchanged) ==
    IF i > Len(left.val) THEN [usedL |-> usedL, usedR |-> usedR, unchanged |-> unchanged]
    ELSE LET j == IF i \in usedL THEN 0 ELSE FirstUnusedMatch(left.val[i], right, usedR)
         IN  IF j = 0
             THEN FirstPass(left, right, path, i + 1, usedL, usedR, unchanged)
             ELSE FirstPass(left, right, path, i + 1, usedL \cup {i}, usedR \cup {j},
                            Append(unchanged,
                                   [path |-> IndexPath(path, i - 1), value |-> left.val[i]]))

\* The records of the second pass (side = left) or third pass (side = right)
\* for the items from index i on.
RECURSIVE UnusedItems(_, _, _, _, _)
UnusedItems(side, path, used, kind, i) ==
    IF i > Len(side.val) THEN <<>>
    ELSE (IF i \in used THEN <<>>
          ELSE <<[path |-> IndexPath(path, i - 1), value |-> side.val[i],
                  type |-> kind, arrayIndex |-> i - 1]>>)
         \o UnusedItems(side, path, used, kind, i + 1)

\* An index-by-index comparison of the two arrays: the items at the same index
\* are compared by deepDiff, the surplus items are removed or added.
RECURSIVE PositionalFrom(_, _, _, _, _)
PositionalFrom(left, right, path, changes, i) ==
    IF i > Len(left.val) /\ i > Len(right.val) THEN changes
    ELSE LET item(side, kind) ==
                 [path |-> IndexPath(path, i - 1), value |-> side.val[i],
                  type |-> kind, arrayIndex |-> i - 1]
             next ==
                 IF i > Len(left.val) THEN
                     [changes EXCEPT !.added = Append(@, item(right, "array_item_added"))]
                 ELSE IF i > Len(right.val) THEN
                     [changes EXCEPT !.removed = Append(@, item(left, "array_item_removed"))]
                 ELSE LET subDiff == deepDiff(left.val[i], right.val[i], IndexPath(path, i - 1))
                      IN  [added |-> changes.added \o subDiff.added,
                           removed |-> changes.removed \o subDiff.removed,
                           modified |-> changes.modified \o subDiff.modified,
                           unchanged |-> changes.unchanged \o subDiff.unchanged]
         IN  PositionalFrom(left, right, path, next, i + 1)

diffArraysPositional(left, right, path, changes) ==
    PositionalFrom(left, right, path, changes, 1)

diffArrays(left, right, path, changes) ==
    IF Len(left.val) = 0 /\ Len(right.val) = 0 THEN changes
    ELSE LET first == FirstPass(left, right, path, 1, {}, {}, changes.unchanged)
         IN  [changes EXCEPT
                !.unchanged = first.unchanged,
                !.removed = @ \o UnusedItems(left, path, first.usedL, "array_item_removed", 1),
                !.added = @ \o UnusedItems(right, path, first.usedR, "array_item_added", 1)]

RECURSIVE ForEachKey(_, _, _, _, _, _)

\* The loop of diffObjects over allKeys from position i on.
ForEachKey(left, right, path, changes, allKeys, i) ==
    IF i > Len(allKeys) THEN changes
    ELSE LET key == allKeys[i]
             currentPath == KeyPath(path, key)
             next ==
                IF ~HasProperty(left, key) THEN
                    [changes EXCEPT !.added = Append(@,
                        [path |-> currentPath, value |-> Get(right, key),
                         type |-> "property_added", arrayIndex |-> -1])]
                ELSE IF ~HasProperty(right, key) THEN
                    [changes EXCEPT !.removed = Append(@,
                        [path |-> currentPath, value |-> Get(left, key),
                         type |-> "property_removed", arrayIndex |-> -1])]
                ELSE LET subDiff == deepDiff(Get(left, key), Get(right, key), currentPath)
                     IN  [added |-> changes.added \o subDiff.added,
                          removed |-> changes.removed \o subDiff.removed,
                          modified |-> changes.modified \o subDiff.modified,
                          unchanged |-> changes.unchanged \o subDiff.unchanged]
         IN  ForEachKey(left, right, path, next, allKeys, i + 1)

\* diffObjects that also records the compared object itself as unchanged when
\* its keys bring no change.
diffObjectsWithContainer(left, right, path, changes) ==
    LET result == ForEachKey(left, right, path, changes,
                             SetOrder(ObjectKeys(left) \o ObjectKeys(right)), 1)
    IN  IF result.added = <<>> /\ result.removed = <<>> /\ result.modified = <<>>
        THEN [result EXCEPT !.unchanged =
                 Append(@, [path |-> PathOrRoot(path), value |-> left])]
        ELSE result

diffObjects(left, right, path, changes) ==
    ForEachKey(left, right, path, changes,
               SetOrder(ObjectKeys(left) \o ObjectKeys(right)), 1)

deepDiff(left, right, path) ==
    LET changes == NoChanges
    IN  IF TypeOf(left) # TypeOf(right) THEN
            [changes EXCEPT !.modified = Append(@,
                [path |-> PathOrRoot(path), leftValue |-> left, rightValue |-> right,
                 type |-> "type_change"])]
        ELSE IF IsArray(left) /\ IsArray(right) THEN
            diffArrays(left, right, path, changes)
        ELSE IF TypeOf(left) = "object" /\ left.type # "null" /\ right.type # "null" THEN
            diffObjects(left, right, path, changes)
        ELSE IF left # right THEN
            [changes EXCEPT !.modified = Append(@,
                [path |-> PathOrRoot(path), leftValue |-> left, rightValue |-> right,
                 type |-> "value_change"])]
        ELSE
            [changes EXCEPT !.unchanged = Append(@,
                [path |-> PathOrRoot(path), value |-> left])]

\* performDiff on two texts that parse
performDiff(left, right) == deepDiff(left, right, "")

-----------------------------------------------------------------------------
(* The documents the two editors hold. *)

MaxLen == 3         \* longest array of a document

SeqsUpTo(S, n) == UNION {[1..k -> S] : k \in 0..n}

Atoms == {Null, Bool(TRUE), Num(1), Num(2), Str("a")}

ArrayItems ==
    {Num(1), Num(2), Obj(<<Entry("a", Num(1))>>), Obj(<<Entry("a", Num(2))>>)}

KeyLists ==
    {<<>>, <<"a">>, <<"b">>, <<"constructor">>,
     <<"a", "b">>, <<"b", "a">>, <<"a", "constructor">>}

PropertyValues ==
    {Num(1), Num(2), Obj(<<>>), Arr(<<>>), Arr(<<Num(2), Num(1)>>),
     Obj(<<Entry("b", Num(1))>>)}

Arrays == {Arr(s) : s \in SeqsUpTo(ArrayItems, MaxLen)}

Objects ==
    UNION {{Obj([i \in 1..Len(ks) |-> Entry(ks[i], vs[i])]) :
                vs \in [1..Len(ks) -> PropertyValues]} : ks \in KeyLists}

\* The two documents {"x": [1, 2]} and {"x": [1, 2, 3]}
ArrayUnderKey ==
    {Obj(<<Entry("x", Arr(<<Num(1), Num(2)>>))>>),
     Obj(<<Entry("x", Arr(<<Num(1), Num(2), Num(3)>>))>>)}

\* A document with a key no other document has
ThirdKey == {Obj(<<Entry("a", Num(2)), Entry("c", Num(1))>>)}

\* The documents [[]] and [{}]
EmptyItems == {Arr(<<Arr(<<>>)>>), Arr(<<Obj(<<>>)>>)}

Docs == Atoms \cup Arrays \cup Objects \cup ArrayUnderKey \cup ThirdKey \cup EmptyItems

-----------------------------------------------------------------------------
(* Texts.  A text is a sequence of characters; "\n" ends a line. *)

Min(a, b) == IF a < b THEN a ELSE b
Max(a, b) == IF a > b THEN a ELSE b

\* text.substring(start, end): both ends clamped to the text, swapped if start > end
Substring(text, start, end) ==
    LET s == Min(Max(start, 0), Len(text))
        e == Min(Max(end, 0), Len(text))
    IN  SubSeq(text, Min(s, e) + 1, Max(s, e))

\* text.split('\n')
RECURSIVE Split(_)
Split(text) ==
    IF \A i \in 1..Len(text) : text[i] # "\n" THEN <<text>>
    ELSE LET i == CHOOSE k \in 1..Len(text) :
                      text[k] = "\n" /\ \A m \in 1..(k - 1) : text[m] # "\n"
         IN  <<SubSeq(text, 1, i - 1)>> \o Split(SubSeq(text, i + 1, Len(text)))

\* text.trim() === ''
IsBlank(text) == \A i \in 1..Len(text) : text[i] \in {"\n", " "}

\* line.indexOf(token) for a token of one character (-1 if the line lacks it)
IndexOf(line, token) ==
    IF \E i \in 1..Len(line) : line[i] = token
    THEN (CHOOSE i \in 1..Len(line) :
              line[i] = token /\ \A m \in 1..(i - 1) : line[m] # token) - 1
    ELSE -1

\* lines[index] || '' (index 0-based)
LineOrEmpty(lines, index) == IF index \in 0..(Len(lines) - 1) THEN lines[index + 1] ELSE <<>>

-----------------------------------------------------------------------------
(* Parser errors.  An error object carries the fields named in `has`; a     *)
(* field it lacks is undefined.  A message is a sequence of tokens: words,  *)
(* numbers (runs of digits) and quoted one-character tokens.                *)

Word(w) == [kind |-> "word", w |-> w, n |-> 0]
Number(n) == [kind |-> "number", w |-> "", n |-> n]
Quoted(c) == [kind |-> "quoted", w |-> c, n |-> 0]

Words(ws) == [i \in 1..Len(ws) |-> Word(ws[i])]

\* A number, or undefined
Defined(n) == [defined |-> TRUE, n |-> n]
Undefined == [defined |-> FALSE, n |-> 0]

\* error.field
Field(error, name) ==
    IF name \in error.has
    THEN Defined(CASE name = "line" -> error.line
                   [] name = "column" -> error.column
                   [] name = "offset" -> error.offset
                   [] name = "index" -> error.index)
    ELSE Undefined

\* a || b on numbers and undefined: a unless it is undefined or 0
OrElse(a, b) == IF a.defined /\ a.n # 0 THEN a ELSE b

\* The spellings of a word a case-insensitive pattern matches
AnyCase(word) ==
    CASE word = "line" -> {"line", "Line", "LINE"}
      [] word = "column" -> {"column", "Column", "COLUMN"}
      [] word = "position" -> {"position", "Position", "POSITION"}

\* message.match(/<word> (\d+)/i): the number of the first match, or undefined
MatchNumberAfter(message, word) ==
    LET hits == {i \in 1..(Len(message) - 1) :
                    /\ message[i].kind = "word" /\ message[i].w \in AnyCase(word)
                    /\ message[i + 1].kind = "number"}
    IN  IF hits = {} THEN Undefined
        ELSE Defined(message[(CHOOSE i \in hits : \A k \in hits : i <= k) + 1].n)

\* The first position at which the words ws occur in a row in message, or 0
FindWords(message, ws) ==
    LET hits == {i \in 1..(Len(message) - Len(ws) + 1) :
                    \A k \in 1..Len(ws) :
                        message[i + k - 1].kind = "word" /\ message[i + k - 1].w = ws[k]}
    IN  IF hits = {} THEN 0 ELSE CHOOSE i \in hits : \A k \in hits : i <= k

-----------------------------------------------------------------------------
(* JSONLinter: the diagnostics.  A diagnostic is the returned string by its  *)
(* parts: the preposition before "line" ("" when no location is given), the *)
(* line and column (column 0: none given), the message text, and the        *)
(* context excerpt with the number of spaces before the caret.              *)

ContextRadius == 25

DefaultMessage == Words(<<"Parse", "error">>)

Diagnostic(prep, line, column, message, hasContext, context, pointer) ==
    [threw |-> FALSE, prep |-> prep, line |-> line, column |-> column,
     message |-> message, hasContext |-> hasContext, context |-> context,
     pointer |-> pointer]

\* `Parse error: ${message}`
PlainDiagnostic(message) == Diagnostic("", 0, 0, message, FALSE, <<>>, 0)

\* An exception leaves the function instead of a string
TypeError == [PlainDiagnostic(<<>>) EXCEPT !.threw = TRUE]

\* `Parse error at line L, column C: ${message}\n\nContext:\n${context}\n${pointer}`
\* with the context cut around the column of the line
DiagnosticWithContext(jsonString, line, column, message) ==
    LET lines == Split(jsonString)
        lineContent == LineOrEmpty(lines, line - 1)
        contextStart == Max(0, column - ContextRadius)
        contextEnd == Min(Len(lineContent), column + ContextRadius)
    IN  Diagnostic("at", line, column, message, TRUE,
                   Substring(lineContent, contextStart, contextEnd),
                   Max(0, column - contextStart - 1))

\* getLineColumnFromPosition with the column counted from 0
getLineColumnZeroBased(text, position) ==
    IF position.defined /\ position.n <= 0 THEN [line |-> 1, column |-> 1]
    ELSE LET beforeError == IF position.defined THEN Substring(text, 0, position.n) ELSE text
             lines == Split(beforeError)
         IN  [line |-> Len(lines), column |-> Len(lines[Len(lines)])]

\* getLineColumnFromPosition(text, position); position may be undefined, and
\* then `position <= 0` is false and substring(0, undefined) is the whole text
getLineColumnFromPosition(text, position) ==
    IF position.defined /\ position.n <= 0 THEN [line |-> 1, column |-> 1]
    ELSE LET beforeError == IF position.defined THEN Substring(text, 0, position.n) ELSE text
             lines == Split(beforeError)
         IN  [line |-> Len(lines), column |-> Len(lines[Len(lines)]) + 1]

\* parseBetterError(error, jsonString)
parseBetterError(error, jsonString) ==
    LET message == IF "message" \in error.has /\ error.message # <<>>
                   THEN error.message ELSE DefaultMessage
    IN  IF "line" \in error.has /\ "column" \in error.has THEN
            DiagnosticWithContext(jsonString, error.line, error.column, message)
        ELSE IF "offset" \in error.has \/ "index" \in error.has THEN
            LET position == OrElse(Field(error, "offset"), Field(error, "index"))
                lineInfo == getLineColumnFromPosition(jsonString, position)
            IN  DiagnosticWithContext(jsonString, lineInfo.line, lineInfo.column, message)
        ELSE PlainDiagnostic(message)

\* parseError(error, jsonString); message.match on an undefined message throws
parseError(error, jsonString) ==
    IF "message" \notin error.has THEN TypeError
    ELSE
    LET message == error.message
        lineMatch == MatchNumberAfter(message, "line")
        columnMatch == MatchNumberAfter(message, "column")
        positionMatch == MatchNumberAfter(message, "position")
        tokenAt == FindWords(message, <<"Unexpected", "token">>)
        nativeErrorMatch ==
            /\ tokenAt > 0 /\ tokenAt + 7 <= Len(message)
            /\ message[tokenAt + 2].kind # "number"
            /\ \A k \in 1..4 : message[tokenAt + 2 + k] = Word(<<"in", "JSON", "at", "position">>[k])
            /\ message[tokenAt + 7].kind = "number"
        unexpectedEndMatch == FindWords(message, <<"Unexpected", "end", "of", "JSON", "input">>) > 0
        unexpectedTokenMatch ==
            /\ tokenAt > 0 /\ tokenAt + 2 <= Len(message)
            /\ message[tokenAt + 2].kind = "quoted"
        lines == Split(jsonString)
    IN  IF lineMatch.defined THEN
            IF columnMatch.defined /\ columnMatch.n # 0
            THEN Diagnostic("on", lineMatch.n, columnMatch.n, message, FALSE, <<>>, 0)
            ELSE Diagnostic("on", lineMatch.n, 0, message, FALSE, <<>>, 0)
        ELSE IF positionMatch.defined THEN
            LET lineInfo == getLineColumnFromPosition(jsonString, positionMatch)
            IN  Diagnostic("on", lineInfo.line, lineInfo.column, message, FALSE, <<>>, 0)
        ELSE IF nativeErrorMatch THEN
            LET lineInfo == getLineColumnFromPosition(jsonString, Defined(message[tokenAt + 7].n))
            IN  DiagnosticWithContext(jsonString, lineInfo.line, lineInfo.column,
                                      SubSeq(message, tokenAt, tokenAt + 2))
        ELSE IF unexpectedEndMatch THEN
            Diagnostic("at", Len(lines), Len(lines[Len(lines)]) + 1,
                       Words(<<"Unexpected", "end", "of", "JSON", "input", "(missing",
                               "closing", "bracket,", "brace,", "or", "quote?)">>),
                       FALSE, <<>>, 0)
        ELSE LET token == IF unexpectedTokenMatch THEN message[tokenAt + 2].w ELSE ""
                 found == {i \in 1..Len(lines) :
                              unexpectedTokenMatch /\ IndexOf(lines[i], token) # -1}
             IN  IF found = {} THEN PlainDiagnostic(message)
                 ELSE LET i == CHOOSE k \in found : \A m \in found : k <= m
                          line == lines[i]
                          tokenIndex == IndexOf(line, token)
                          contextStart == Max(0, tokenIndex - ContextRadius)
                          contextEnd == Min(Len(line), tokenIndex + ContextRadius)
                      IN  Diagnostic("at", i, tokenIndex + 1,
                                     SubSeq(message, tokenAt, tokenAt + 2), TRUE,
                                     Substring(line, contextStart, contextEnd),
                                     Max(0, tokenIndex - contextStart))

-----------------------------------------------------------------------------
(* The texts and the parser errors of the model. *)

MaxTextLen == 4     \* longest text

Chars == {"a", "}", "\n"}

Texts == SeqsUpTo(Chars, MaxTextLen)

\* The numbers a parser reports as a line, a column or an offset of a text
Locations == (-1)..(MaxTextLen + 1)

ErrorObject(has, message, line, column, offset, index) ==
    [has |-> has, message |-> message, line |-> line, column |-> column,
     offset |-> offset, index |-> index]

Messages ==
    {<<>>, Words(<<"Bad", "input">>),
     Words(<<"Unexpected", "end", "of", "JSON", "input">>)}
    \cup {Words(<<"Unexpected", "token">>) \o <<Quoted(c)>> : c \in Chars \ {"\n"}}
    \cup {Words(<<"Unexpected", "token", "}", "in", "JSON", "at", "position">>) \o <<Number(n)>>
              : n \in 0..(MaxTextLen + 1)}
    \cup {Words(<<"Unexpected", "token">>) \o <<Quoted("}")>>
              \o Words(<<"at", "position">>) \o <<Number(n)>>
              \o Words(<<"(line">>) \o <<Number(1)>> \o Words(<<"column">>)
              \o <<Number(n + 1)>> : n \in 0..1}
    \cup {Words(<<"Syntax", "error", "at", "line">>) \o <<Number(l)>>
              \o Words(<<"column">>) \o <<Number(c)>> : l \in 1..2, c \in 0..1}
    \cup {Words(<<"Error", "on", "Line">>) \o <<Number(2)>>}

\* The error objects: those with a message alone, those with a line and/or a
\* column, those with an offset and/or an index, each with or without a
\* message, and those with all five fields.
ErrorObjects ==
    {ErrorObject({"message"}, m, 0, 0, 0, 0) : m \in Messages}
    \cup {ErrorObject(has \cup mh, Words(<<"Bad", "input">>),
                      IF "line" \in has THEN l ELSE 0,
                      IF "column" \in has THEN c ELSE 0, 0, 0) :
              has \in SUBSET {"line", "column"}, mh \in {{}, {"message"}},
              l \in Locations, c \in Locations}
    \cup {ErrorObject(has \cup mh, Words(<<"Bad", "input">>), 0, 0,
                      IF "offset" \in has THEN o ELSE 0,
                      IF "index" \in has THEN x ELSE 0) :
              has \in SUBSET {"offset", "index"}, mh \in {{}, {"message"}},
              o \in Locations, x \in Locations}
    \cup {ErrorObject({"message", "line", "column", "offset", "index"},
                      Words(<<"Bad", "input", "at", "position">>) \o <<Number(n)>>,
                      1, n + 1, n, n) : n \in 0..MaxTextLen}

-----------------------------------------------------------------------------
(* JSONLinter.validate *)

NotValidated == [called |-> FALSE, threw |-> FALSE, isValid |-> FALSE, errors |-> <<>>]

Returned(isValid, errors) ==
    [called |-> TRUE, threw |-> FALSE, isValid |-> isValid, errors |-> errors]

Threw == [called |-> TRUE, threw |-> TRUE, isValid |-> FALSE, errors |-> <<>>]

InitLint ==
    /\ content \in Texts
    /\ parser \in {[throws |-> FALSE, error |-> ErrorObject({}, <<>>, 0, 0, 0, 0)]}
                  \cup {[throws |-> TRUE, error |-> e] : e \in ErrorObjects}
    /\ betterErrors \in BOOLEAN
    /\ validation = NotValidated

\* validate(jsonString) on an empty or blank text
validateEmpty ==
    /\ ~validation.called
    /\ IsBlank(content)
    /\ validation' = Returned(FALSE, <<PlainDiagnostic(Words(<<"Input", "is", "empty">>))>>)
    /\ UNCHANGED <<content, parser, betterErrors>>

\* validate(jsonString) with json-parse-better-errors loaded: its error goes to
\* parseBetterError, and an exception of parseBetterError to the outer catch
validateBetter ==
    /\ ~validation.called
    /\ ~IsBlank(content)
    /\ betterErrors
    /\ validation' =
          IF ~parser.throws THEN Returned(TRUE, <<>>)
          ELSE LET errorMessage == parseBetterError(parser.error, content)
               IN  IF errorMessage.threw THEN Threw
                   ELSE Returned(FALSE, <<errorMessage>>)
    /\ UNCHANGED <<content, parser, betterErrors>>

\* validate(jsonString) without the library: JSON.parse's error goes to
\* parseError in the catch block, whose own exception leaves validate
validateNative ==
    /\ ~validation.called
    /\ ~IsBlank(content)
    /\ ~betterErrors
    /\ validation' =
          IF ~parser.throws THEN Returned(TRUE, <<>>)
          ELSE LET errorMessage == parseError(parser.error, content)
               IN  IF errorMessage.threw THEN Threw
                   ELSE Returned(FALSE, <<errorMessage>>)
    /\ UNCHANGED <<content, parser, betterErrors>>

-----------------------------------------------------------------------------
(* JSON texts.  An editor holds a text; the text of a parsed value is the    *)
(* value written in one of three layouts: "pretty" is JSON.stringify with an *)
(* indent of 2 (one member per line), "compact" is JSON.stringify without    *)
(* indent (one line, no blank), "inline" has the members of the root one per *)
(* line and each value on its member's line.                                *)

Quote == "\""

\* The characters of a key or of a string value
CharsOf(s) ==
    CASE s = "constructor" -> <<"c", "o", "n", "s", "t", "r", "u", "c", "t", "o", "r">>
      [] s = "root" -> <<"r", "o", "o", "t">>
      [] s = "a.b" -> <<"a", ".", "b">>
      [] s = "x[0]" -> <<"x", "[", "0", "]">>
      [] OTHER -> <<s>>

StringLiteral(s) == <<Quote>> \o CharsOf(s) \o <<Quote>>

\* The text of a value that is no container
ScalarText(v) ==
    CASE v.type = "null" -> <<"n", "u", "l", "l">>
      [] v.type = "boolean" -> IF v.val THEN <<"t", "r", "u", "e">>
                               ELSE <<"f", "a", "l", "s", "e">>
      [] v.type = "number" -> <<ToString(v.val)>>
      [] v.type = "string" -> StringLiteral(v.val)

IsContainer(v) == v.type \in {"array", "object"}
OpenOf(v) == IF v.type = "array" THEN "[" ELSE "{"
CloseOf(v) == IF v.type = "array" THEN "]" ELSE "}"

\* The value written on one line, with or without a blank after ':' and ','
RECURSIVE OneLine(_, _)
RECURSIVE OneLineMembers(_, _, _)
OneLineMembers(v, spaced, i) ==
    IF i > Len(v.val) THEN <<>>
    ELSE (IF v.type = "object"
          THEN StringLiteral(v.val[i].key) \o (IF spaced THEN <<":", " ">> ELSE <<":">>)
                  \o OneLine(v.val[i].value, spaced)
          ELSE OneLine(v.val[i], spaced))
         \o (IF i = Len(v.val) THEN <<>> ELSE IF spaced THEN <<",", " ">> ELSE <<",">>)
         \o OneLineMembers(v, spaced, i + 1)

OneLine(v, spaced) ==
    IF IsContainer(v) THEN <<OpenOf(v)>> \o OneLineMembers(v, spaced, 1) \o <<CloseOf(v)>>
    ELSE ScalarText(v)

Indent(depth) == [k \in 1..(depth + depth) |-> " "]

\* The key part of member i of v at the start of its line
MemberHead(v, i, depth) ==
    Indent(depth) \o (IF v.type = "object"
                      THEN StringLiteral(v.val[i].key) \o <<":", " ">> ELSE <<>>)

MemberValue(v, i) == IF v.type = "object" THEN v.val[i].value ELSE v.val[i]

\* The lines of JSON.stringify(v, null, 2) for v at a depth: the first line
\* without its indent (it follows the key), the others with theirs
RECURSIVE Pretty(_, _)
RECURSIVE PrettyMembers(_, _, _)
PrettyMembers(v, depth, i) ==
    IF i > Len(v.val) THEN <<>>
    ELSE LET sub == Pretty(MemberValue(v, i), depth)
             block == <<MemberHead(v, i, depth) \o sub[1]>> \o Tail(sub)
             closed == IF i = Len(v.val) THEN block
                       ELSE [block EXCEPT ![Len(block)] = @ \o <<",">>]
         IN  closed \o PrettyMembers(v, depth, i + 1)

Pretty(v, depth) ==
    IF IsContainer(v) /\ v.val # <<>>
    THEN <<<<OpenOf(v)>>>> \o PrettyMembers(v, depth + 1, 1)
            \o <<Indent(depth) \o <<CloseOf(v)>>>>
    ELSE <<OneLine(v, FALSE)>>

\* The lines of v with the members of the root one per line, each value
\* written on the line of its member
InlineMembers(v) ==
    IF IsContainer(v) /\ v.val # <<>>
    THEN <<<<OpenOf(v)>>>>
            \o [i \in 1..Len(v.val) |->
                   MemberHead(v, i, 1) \o OneLine(MemberValue(v, i), TRUE)
                      \o (IF i = Len(v.val) THEN <<>> ELSE <<",">>)]
            \o <<<<CloseOf(v)>>>>
    ELSE <<OneLine(v, TRUE)>>

\* lines.join('\n')
RECURSIVE Join(_)
Join(lines) ==
    IF Len(lines) = 0 THEN <<>>
    ELSE IF Len(lines) = 1 THEN lines[1]
    ELSE lines[1] \o <<"\n">> \o Join(Tail(lines))

Layouts == {"pretty", "compact", "inline"}

\* The text of the value v in a layout: JSON.parse of the text gives v back
TextOf(v, layout) ==
    Join(CASE layout = "pretty" -> Pretty(v, 0)
           [] layout = "compact" -> <<OneLine(v, FALSE)>>
           [] layout = "inline" -> InlineMembers(v))

-----------------------------------------------------------------------------
(* TreeManager: the lines of the keys and of the array elements.  A path is *)
(* a sequence of segments: object keys (strings) and array indices          *)
(* (numbers).  Lines are counted from 0; -1 is "not found".                 *)

KeySeg(key) == [kind |-> "key", name |-> key]
IndexSeg(index) == [kind |-> "index", name |-> ToString(index)]
NullKey == [kind |-> "null", name |-> ""]

\* path.join('.')
RECURSIVE JoinPath(_)
JoinPath(path) ==
    IF path = <<>> THEN ""
    ELSE IF Len(path) = 1 THEN path[1].name
    ELSE path[1].name \o "." \o JoinPath(Tail(path))

\* The string of a sequence of characters
RECURSIVE StringOf(_)
StringOf(chars) == IF chars = <<>> THEN "" ELSE chars[1] \o StringOf(Tail(chars))

\* line.trim()
LeadingBlanks(line) ==
    IF \A i \in 1..Len(line) : line[i] = " " THEN Len(line)
    ELSE (CHOOSE i \in 1..Len(line) : line[i] # " " /\ \A m \in 1..(i - 1) : line[m] = " ") - 1

TrimStart(line) == SubSeq(line, LeadingBlanks(line) + 1, Len(line))

TrimEnd(line) ==
    IF \A i \in 1..Len(line) : line[i] = " " THEN <<>>
    ELSE SubSeq(line, 1, CHOOSE i \in 1..Len(line) :
                              line[i] # " " /\ \A m \in (i + 1)..Len(line) : line[m] = " ")

Trim(line) == TrimEnd(TrimStart(line))

\* The index of the first '"' of t after position from, or 0
NextQuote(t, from) ==
    IF \E q \in (from + 1)..Len(t) : t[q] = Quote
    THEN CHOOSE q \in (from + 1)..Len(t) :
             t[q] = Quote /\ \A m \in (from + 1)..(q - 1) : t[m] # Quote
    ELSE 0

\* s matches \s*,?\s*
CommaTail(s) ==
    /\ \A i \in 1..Len(s) : s[i] \in {" ", ","}
    /\ Cardinality({i \in 1..Len(s) : s[i] = ","}) <= 1

\* keyPattern.test(line): /^\s*"<key>"\s*:/ with the key taken literally
KeyPatternTest(line, key) ==
    LET t == TrimStart(line)
        n == Len(CharsOf(key))
    IN  /\ Len(t) >= n + 3
        /\ t[1] = Quote /\ SubSeq(t, 2, n + 1) = CharsOf(key) /\ t[n + 2] = Quote
        /\ LET rest == TrimStart(SubSeq(t, n + 3, Len(t)))
           IN  rest # <<>> /\ rest[1] = ":"

\* trimmed.match(/^"([^"]+)"\s*:/): the key matched, or "" when there is no match
KeyMatch(trimmed) ==
    LET q == IF trimmed # <<>> /\ trimmed[1] = Quote THEN NextQuote(trimmed, 1) ELSE 0
        rest == TrimStart(SubSeq(trimmed, q + 1, Len(trimmed)))
    IN  IF q > 2 /\ rest # <<>> /\ rest[1] = ":" THEN StringOf(SubSeq(trimmed, 2, q - 1))
        ELSE ""

\* trimmed.match(/^\s*\[.*".*"\s*,?\s*$/)
OpensWithQuotedElement(trimmed) ==
    /\ trimmed # <<>> /\ trimmed[1] = "["
    /\ \E q \in 3..Len(trimmed) :
          /\ trimmed[q] = Quote
          /\ CommaTail(SubSeq(trimmed, q + 1, Len(trimmed)))
          /\ \E p \in 2..(q - 1) : trimmed[p] = Quote

\* trimmed.match(/^\s*"[^"]*"\s*,?\s*$/)
IsQuotedElement(trimmed) ==
    /\ trimmed # <<>> /\ trimmed[1] = Quote
    /\ NextQuote(trimmed, 1) > 0
    /\ CommaTail(SubSeq(trimmed, NextQuote(trimmed, 1) + 1, Len(trimmed)))

NotFound == -1

\* What a finder gives when it throws: key.replace on a number is a TypeError
Thrown == -2

\* The first line from index `from` on that keyPattern matches, or -1
RECURSIVE FirstKeyLine(_, _, _)
FirstKeyLine(lines, key, from) ==
    IF from >= Len(lines) THEN NotFound
    ELSE IF KeyPatternTest(lines[from + 1], key) THEN from
    ELSE FirstKeyLine(lines, key, from + 1)

\* findObjectKeyLine(lines, key, parentPath)
findObjectKeyLine(lines, key, parentPath) ==
    IF key.kind = "index" THEN Thrown ELSE FirstKeyLine(lines, key.name, 0)

\* The loop over the characters of a line in findObjectKeyLineWithContext, from
\* character c on: the brace depth, inParentObject, and whether the parent
\* object ended (return -1)
RECURSIVE BraceScan(_, _, _, _, _)
BraceScan(line, c, braceDepth, inParentObject, atParentLine) ==
    IF c > Len(line) THEN [depth |-> braceDepth, inParent |-> inParentObject, ended |-> FALSE]
    ELSE IF line[c] = "{" THEN
        BraceScan(line, c + 1, braceDepth + 1,
                  inParentObject \/ atParentLine \/ braceDepth + 1 = 1, atParentLine)
    ELSE IF line[c] = "}" THEN
        IF braceDepth - 1 = 0 /\ inParentObject
        THEN [depth |-> 0, inParent |-> TRUE, ended |-> TRUE]
        ELSE BraceScan(line, c + 1, braceDepth - 1, inParentObject, atParentLine)
    ELSE BraceScan(line, c + 1, braceDepth, inParentObject, atParentLine)

\* The loop over the lines from the parent's line on
RECURSIVE ScanParentObject(_, _, _, _, _, _)
ScanParentObject(lines, key, parentLine, i, braceDepth, inParentObject) ==
    IF i >= Len(lines) THEN NotFound
    ELSE LET scan == BraceScan(lines[i + 1], 1, braceDepth, inParentObject, i = parentLine)
         IN  IF scan.ended THEN NotFound
             ELSE IF scan.inParent /\ scan.depth >= 1 /\ KeyPatternTest(lines[i + 1], key)
                  THEN i
             ELSE ScanParentObject(lines, key, parentLine, i + 1, scan.depth, scan.inParent)

\* findObjectKeyLineWithContext(lines, key, parentPath)
RECURSIVE findObjectKeyLineWithContext(_, _, _)
findObjectKeyLineWithContext(lines, key, parentPath) ==
    IF key.kind = "index" THEN Thrown
    ELSE IF parentPath = <<>> THEN FirstKeyLine(lines, key.name, 0)
    ELSE LET parentKey == parentPath[Len(parentPath)]
             parentLine == findObjectKeyLineWithContext(
                               lines, parentKey, SubSeq(parentPath, 1, Len(parentPath) - 1))
         IN  IF parentLine = Thrown THEN Thrown
             ELSE IF parentLine = NotFound THEN NotFound
             ELSE ScanParentObject(lines, key.name, parentLine, parentLine, 0, FALSE)

\* The loop over the characters of a line in findArrayElementLine: the bracket
\* depth, inArray and foundArrayStart after the line (the loop stops at the
\* ']' that closes the array)
RECURSIVE BracketScan(_, _, _, _, _)
BracketScan(line, c, bracketDepth, inArray, foundArrayStart) ==
    IF c > Len(line)
    THEN [depth |-> bracketDepth, inArray |-> inArray, found |-> foundArrayStart]
    ELSE IF line[c] = "[" THEN
        BracketScan(line, c + 1, bracketDepth + 1,
                    inArray \/ bracketDepth + 1 = 1, foundArrayStart \/ bracketDepth + 1 = 1)
    ELSE IF line[c] = "]" THEN
        IF bracketDepth - 1 = 0
        THEN [depth |-> 0, inArray |-> FALSE, found |-> foundArrayStart]
        ELSE BracketScan(line, c + 1, bracketDepth - 1, inArray, foundArrayStart)
    ELSE BracketScan(line, c + 1, bracketDepth, inArray, foundArrayStart)

\* The loop over the lines from line `start` on, at line i
RECURSIVE ScanArray(_, _, _, _, _, _, _, _)
ScanArray(lines, elementIndex, start, i, elementCount, inArray, bracketDepth, foundArrayStart) ==
    IF i >= Len(lines) THEN NotFound
    ELSE LET scan == BracketScan(lines[i + 1], 1, bracketDepth, inArray, foundArrayStart)
             trimmed == Trim(lines[i + 1])
             counting == scan.inArray /\ scan.found /\ scan.depth = 1
             skipped == /\ counting
                        /\ \E c \in 1..Len(trimmed) : trimmed[c] = "["
                        /\ ~OpensWithQuotedElement(trimmed)
             element == counting /\ ~skipped /\ IsQuotedElement(trimmed)
         IN  IF element /\ elementCount = elementIndex THEN i
             ELSE IF ~skipped /\ ~scan.inArray /\ scan.depth = 0 /\ i > start THEN NotFound
             ELSE ScanArray(lines, elementIndex, start, i + 1,
                            IF element THEN elementCount + 1 ELSE elementCount,
                            scan.inArray, scan.depth, scan.found)

\* TreeManager.findArrayElementLine(lines, parentPath, elementIndex)
findArrayElementLine(lines, parentPath, elementIndex) ==
    IF parentPath # <<>> THEN
        LET parentLine == findObjectKeyLine(lines, parentPath[Len(parentPath)],
                                            SubSeq(parentPath, 1, Len(parentPath) - 1))
        IN  IF parentLine = Thrown THEN Thrown
            ELSE IF parentLine = NotFound THEN NotFound
            ELSE ScanArray(lines, elementIndex, parentLine, parentLine, 0, FALSE, 0, FALSE)
    ELSE ScanArray(lines, elementIndex, 0, 0, 0, FALSE, 0, FALSE)

-----------------------------------------------------------------------------
(* TreeManager: the line map (a Map from strings to lines) and the tree.    *)

EmptyMap == [k \in {} |-> 0]

MapHas(map, key) == key \in DOMAIN map

MapSet(map, key, line) ==
    [k \in DOMAIN map \cup {key} |-> IF k = key THEN line ELSE map[k]]

\* map.get(key): a line, or undefined
MapGet(map, key) == IF MapHas(map, key) THEN Defined(map[key]) ELSE Undefined

\* mapJsonStructureToLines(data, lines, pathToLine, currentPath): the map after
\* the call, and whether the call threw (the map keeps what was set before)
RECURSIVE mapJsonStructureToLines(_, _, _, _)

\* The two pathToLine.set of one member found on the line lineNumber: the
\* full path always, the bare key of an object unless the map has it
SetMemberLines(data, pathToLine, currentPath, segment, lineNumber) ==
    LET withFull ==
            IF IsArray(data)
            THEN MapSet(pathToLine, JoinPath(currentPath) \o "." \o segment.name, lineNumber)
            ELSE MapSet(pathToLine, JoinPath(Append(currentPath, segment)), lineNumber)
    IN  IF lineNumber = NotFound THEN pathToLine
        ELSE IF IsArray(data) \/ MapHas(withFull, segment.name) THEN withFull
        ELSE MapSet(withFull, segment.name, lineNumber)

\* The forEach of mapJsonStructureToLines from member i on (1-based here)
RECURSIVE MapMembers(_, _, _, _, _)

\* The rest of the forEach after the walk below member i
MapNext(data, lines, currentPath, i, below) ==
    IF below.threw THEN below
    ELSE MapMembers(data, lines, below.map, currentPath, i + 1)

\* One turn of the forEach: member i with its segment and the line found for it
MapMember(data, lines, pathToLine, currentPath, i, segment, lineNumber) ==
    IF lineNumber = Thrown THEN [threw |-> TRUE, map |-> pathToLine]
    ELSE MapNext(data, lines, currentPath, i,
                 IF IsContainer(MemberValue(data, i))
                 THEN mapJsonStructureToLines(
                          MemberValue(data, i), lines,
                          SetMemberLines(data, pathToLine, currentPath, segment, lineNumber),
                          Append(currentPath, segment))
                 ELSE [threw |-> FALSE,
                       map |-> SetMemberLines(data, pathToLine, currentPath, segment,
                                              lineNumber)])

MapMembers(data, lines, pathToLine, currentPath, i) ==
    IF i > Len(data.val) THEN [threw |-> FALSE, map |-> pathToLine]
    ELSE IF IsArray(data)
    THEN MapMember(data, lines, pathToLine, currentPath, i, IndexSeg(i - 1),
                   findArrayElementLine(lines, currentPath, i - 1))
    ELSE MapMember(data, lines, pathToLine, currentPath, i, KeySeg(data.val[i].key),
                   findObjectKeyLineWithContext(lines, KeySeg(data.val[i].key), currentPath))

mapJsonStructureToLines(data, lines, pathToLine, currentPath) ==
    IF IsContainer(data) THEN MapMembers(data, lines, pathToLine, currentPath, 1)
    ELSE [threw |-> FALSE, map |-> pathToLine]

\* The scan of the lines that follows the walk of the structure, from line i on:
\* a key not yet in the map gets the line, and a line that is '{' or '[' alone
\* is entered under `__line_<i>`
RECURSIVE ScanLines(_, _, _)
ScanLines(lines, pathToLine, i) ==
    IF i >= Len(lines) THEN pathToLine
    ELSE LET trimmed == Trim(lines[i + 1])
             key == KeyMatch(trimmed)
             withKey == IF key # "" /\ ~MapHas(pathToLine, key)
                        THEN MapSet(pathToLine, key, i) ELSE pathToLine
             withLine == IF trimmed = <<"{">> \/ trimmed = <<"[">>
                         THEN MapSet(withKey, "__line_" \o ToString(i), i) ELSE withKey
         IN  ScanLines(lines, withLine, i + 1)

\* The scan of the catch block: every key line sets its key
RECURSIVE FallbackScan(_, _, _)
FallbackScan(lines, pathToLine, i) ==
    IF i >= Len(lines) THEN pathToLine
    ELSE LET key == KeyMatch(Trim(lines[i + 1]))
         IN  FallbackScan(lines, IF key # "" THEN MapSet(pathToLine, key, i) ELSE pathToLine,
                          i + 1)

\* createLineMapping(content), parsed being JSON.parse(content): the map it
\* stores in ui.treeNodeMap
createLineMapping(text, parsed) ==
    LET lines == Split(text)
        walk == mapJsonStructureToLines(parsed, lines, EmptyMap, <<>>)
    IN  IF walk.threw THEN FallbackScan(lines, walk.map, 0)
        ELSE ScanLines(lines, walk.map, 0)

\* The line createTreeHTML gives the node of `key` under parentPath
NodeLine(treeMap, key, parentPath) ==
    IF key.kind = "null" THEN Undefined
    ELSE LET fullPath == MapGet(treeMap, JoinPath(Append(parentPath, key)))
             arrayElementPath ==
                 IF ~fullPath.defined /\ key.kind = "index"
                 THEN MapGet(treeMap, JoinPath(parentPath) \o "." \o key.name)
                 ELSE fullPath
             direct ==
                 IF ~arrayElementPath.defined /\ key.kind = "key"
                 THEN MapGet(treeMap, key.name)
                 ELSE arrayElementPath
         IN  IF ~direct.defined /\ key.kind = "index" THEN MapGet(treeMap, key.name)
             ELSE direct

\* createTreeHTML(data, key, level, parentPath): the nodes of the tree in
\* document order, each with its data-path and its data-line
RECURSIVE createTreeHTML(_, _, _, _)
RECURSIVE TreeChildren(_, _, _, _)
TreeChildren(treeMap, data, currentPath, i) ==
    IF i > Len(data.val) THEN <<>>
    ELSE createTreeHTML(treeMap, MemberValue(data, i),
                        IF IsArray(data) THEN IndexSeg(i - 1) ELSE KeySeg(data.val[i].key),
                        currentPath)
         \o TreeChildren(treeMap, data, currentPath, i + 1)

createTreeHTML(treeMap, data, key, parentPath) ==
    LET currentPath == IF key.kind # "null" THEN Append(parentPath, key) ELSE parentPath
        node == [path |-> currentPath, line |-> NodeLine(treeMap, key, parentPath)]
    IN  <<node>> \o (IF IsContainer(data) THEN TreeChildren(treeMap, data, currentPath, 1)
                     ELSE <<>>)

-----------------------------------------------------------------------------
(* DiffManager: the lines of the records of a comparison, and the marks.    *)

\* line.includes(part)
IncludesText(line, part) ==
    \E k \in 0..(Len(line) - Len(part)) : SubSeq(line, k + 1, k + Len(part)) = part

PathSeparators == {".", "[", "]"}

\* path.split(/[.\[\]]+/).filter(part => part !== '')
RECURSIVE PathParts(_)
PathParts(path) ==
    IF path = <<>> THEN <<>>
    ELSE IF path[1] \in PathSeparators THEN PathParts(Tail(path))
    ELSE LET n == IF \E k \in 1..Len(path) : path[k] \in PathSeparators
                  THEN (CHOOSE k \in 1..Len(path) :
                            /\ path[k] \in PathSeparators
                            /\ \A m \in 1..(k - 1) : path[m] \notin PathSeparators) - 1
                  ELSE Len(path)
         IN  <<SubSeq(path, 1, n)>> \o PathParts(SubSeq(path, n + 1, Len(path)))

DigitChars == {ToString(d) : d \in 0..9}

\* parseInt(digits, 10)
RECURSIVE ParseInt(_)
ParseInt(digits) ==
    IF digits = <<>> THEN 0
    ELSE 10 * ParseInt(SubSeq(digits, 1, Len(digits) - 1))
            + (CHOOSE d \in 0..9 : ToString(d) = digits[Len(digits)])

\* path.match(/^(.*?)\[(\d+)\]$/): whether it matches, the array path and the index
ArrayMatch(path) ==
    LET opens == {b \in 1..(Len(path) - 2) :
                     /\ path[b] = "[" /\ path[Len(path)] = "]"
                     /\ \A k \in (b + 1)..(Len(path) - 1) : path[k] \in DigitChars}
        b == CHOOSE m \in opens : \A k \in opens : m <= k
    IN  IF opens = {} THEN [matched |-> FALSE, arrayPath |-> <<>>, index |-> 0]
        ELSE [matched |-> TRUE, arrayPath |-> SubSeq(path, 1, b - 1),
              index |-> ParseInt(SubSeq(path, b + 1, Len(path) - 1))]

\* The first line from 0 on whose trimmed text satisfies test, or -1
FirstLineWith(lines, test(_)) ==
    IF \E i \in 1..Len(lines) : test(Trim(lines[i]))
    THEN (CHOOSE i \in 1..Len(lines) :
              test(Trim(lines[i])) /\ \A m \in 1..(i - 1) : ~test(Trim(lines[m]))) - 1
    ELSE NotFound

\* The loop over the characters of a line in DiffManager.findArrayElementLine:
\* the bracket depth and inArray after the line
RECURSIVE TrackBrackets(_, _, _, _)
TrackBrackets(line, c, bracketDepth, inArray) ==
    IF c > Len(line) THEN [depth |-> bracketDepth, inArray |-> inArray]
    ELSE IF line[c] = "[" THEN
        TrackBrackets(line, c + 1, bracketDepth + 1, inArray \/ bracketDepth + 1 = 1)
    ELSE IF line[c] = "]" THEN
        TrackBrackets(line, c + 1, bracketDepth - 1, inArray /\ bracketDepth - 1 # 0)
    ELSE TrackBrackets(line, c + 1, bracketDepth, inArray)

\* The loop that counts the elements from the line arrayStartLine on, at line i
RECURSIVE CountElements(_, _, _, _, _, _, _)
CountElements(lines, targetIndex, arrayStartLine, i, currentArrayIndex, bracketDepth, inArray) ==
    IF i >= Len(lines) THEN Undefined
    ELSE LET track == TrackBrackets(lines[i + 1], 1, bracketDepth, inArray)
             trimmedLine == Trim(lines[i + 1])
             valueLine == /\ track.inArray /\ track.depth = 1
                          /\ trimmedLine # <<>>
                          /\ \E c \in 1..Len(trimmedLine) :
                                 trimmedLine[c] \notin {"[", "]", ",", " "}
             index == IF valueLine THEN currentArrayIndex + 1 ELSE currentArrayIndex
         IN  IF valueLine /\ index = targetIndex THEN Defined(i)
             ELSE IF ~track.inArray /\ track.depth = 0 /\ i > arrayStartLine THEN Undefined
             ELSE CountElements(lines, targetIndex, arrayStartLine, i + 1, index,
                                track.depth, track.inArray)

\* DiffManager.findArrayElementLine(path, lines): the line, or null
findArrayElementLineOfPath(path, lines) ==
    LET arrayMatch == ArrayMatch(path)
        pathParts == PathParts(arrayMatch.arrayPath)
        arrayKey == <<Quote>> \o pathParts[Len(pathParts)] \o <<Quote>>
        IsArrayProperty(line) ==
            IncludesText(line, arrayKey) /\ IncludesText(line, <<":">>)
                /\ IncludesText(line, <<"[">>)
        arrayStartLine ==
            IF arrayMatch.arrayPath = <<>> THEN 0
            ELSE IF pathParts = <<>> THEN NotFound
            ELSE FirstLineWith(lines, IsArrayProperty)
    IN  IF ~arrayMatch.matched THEN Undefined
        ELSE IF arrayStartLine = NotFound THEN Undefined
        ELSE CountElements(lines, arrayMatch.index, arrayStartLine, arrayStartLine, -1, 0, FALSE)

\* findLineForPath(path, content): the line, or null
findLineForPath(path, text) ==
    LET lines == Split(text)
        pathParts == PathParts(path)
        lastKey == <<Quote>> \o pathParts[Len(pathParts)] \o <<Quote>>
        IsProperty(line) == IncludesText(line, lastKey) /\ IncludesText(line, <<":">>)
        HasKey(line) == IncludesText(line, lastKey)
    IN  IF IncludesText(path, <<"[">>) /\ IncludesText(path, <<"]">>)
        THEN findArrayElementLineOfPath(path, lines)
        ELSE IF pathParts = <<>> THEN Undefined
        ELSE IF FirstLineWith(lines, IsProperty) # NotFound
             THEN Defined(FirstLineWith(lines, IsProperty))
        ELSE IF FirstLineWith(lines, HasKey) # NotFound
             THEN Defined(FirstLineWith(lines, HasKey))
        ELSE Undefined

\* The paths of the nodes of v, each as the string a record carries and as the
\* characters of that string (an array item has the path of diffArrays and
\* the path diffObjects gives the key of an array)
RECURSIVE PathTexts(_, _, _)
PathTexts(v, path, chars) ==
    {[path |-> PathOrRoot(path),
      chars |-> IF chars = <<>> THEN <<"r", "o", "o", "t">> ELSE chars]}
    \cup (IF v.type = "array" THEN
            UNION {PathTexts(v.val[i], IndexPath(path, i - 1),
                             chars \o <<"[", ToString(i - 1), "]">>)
                   \cup PathTexts(v.val[i], KeyPath(path, ToString(i - 1)),
                                  chars \o (IF chars = <<>> THEN <<>> ELSE <<".">>)
                                        \o <<ToString(i - 1)>>) : i \in 1..Len(v.val)}
          ELSE IF v.type = "object" THEN
            UNION {PathTexts(v.val[i].value, KeyPath(path, v.val[i].key),
                             chars \o (IF chars = <<>> THEN <<>> ELSE <<".">>)
                                   \o CharsOf(v.val[i].key)) : i \in 1..Len(v.val)}
          ELSE {})

\* The paths of the records of a comparison of left and right
PathsOf(left, right) == PathTexts(left, "", <<>>) \cup PathTexts(right, "", <<>>)

\* The characters of the path of a record
CharsOfPath(path, paths) == (CHOOSE e \in paths : e.path = path).chars

\* The marks one forEach of highlightChanges sets for records from index i on
RECURSIVE MarksOf(_, _, _, _, _)
MarksOf(records, text, className, paths, i) ==
    IF i > Len(records) THEN <<>>
    ELSE LET lineInfo == findLineForPath(CharsOfPath(records[i].path, paths), text)
         IN  (IF lineInfo.defined THEN <<[line |-> lineInfo.n, className |-> className]>>
              ELSE <<>>)
             \o MarksOf(records, text, className, paths, i + 1)

\* highlightChanges with the test of the side left out: every record is marked
\* in the editor at hand
highlightChangesAnySide(text, changes, side, paths) ==
    MarksOf(changes.removed, text, "diff-removed", paths, 1)
    \o MarksOf(changes.added, text, "diff-added", paths, 1)
    \o MarksOf(changes.modified, text, "diff-modified", paths, 1)

\* highlightChanges(editor, diffResults, side): the marks set in the editor
\* whose text is given (paths holds the characters of the records' paths)
highlightChanges(text, changes, side, paths) ==
    (IF side = "left" THEN MarksOf(changes.removed, text, "diff-removed", paths, 1)
     ELSE <<>>)
    \o (IF side = "right" THEN MarksOf(changes.added, text, "diff-added", paths, 1)
        ELSE <<>>)
    \o MarksOf(changes.modified, text, "diff-modified", paths, 1)

-----------------------------------------------------------------------------
(* The comparison of the two editors. *)

\* The documents typed on one line: those with one member at most, and the
\* two with an array under a key
OneLineDocs == ArrayUnderKey \cup {d \in Arrays \cup Objects : Len(d.val) <= 1}

\* The layout of the text of an editor
LayoutsOf(doc) == IF doc \in OneLineDocs THEN {"pretty", "compact"} ELSE {"pretty"}

InitDiff ==
    /\ leftObj \in Docs
    /\ rightObj \in Docs
    /\ leftContent \in {TextOf(leftObj, layout) : layout \in LayoutsOf(leftObj)}
    /\ rightContent \in {TextOf(rightObj, layout) : layout \in LayoutsOf(rightObj)}
    /\ isCompareMode = FALSE
    /\ diffResults = [isNull |-> TRUE, changes |-> NoChanges]
    /\ leftMarks = <<>>
    /\ rightMarks = <<>>

\* enterCompareMode (the Compare button, out of compare mode): the comparison
\* and applyDiffHighlighting
enterCompareMode ==
    /\ ~isCompareMode
    /\ isCompareMode' = TRUE
    /\ diffResults' = [isNull |-> FALSE, changes |-> performDiff(leftObj, rightObj)]
    /\ LET paths == PathsOf(leftObj, rightObj)
       IN  /\ leftMarks' = highlightChanges(leftContent, diffResults'.changes, "left", paths)
           /\ rightMarks' = highlightChanges(rightContent, diffResults'.changes, "right", paths)
    /\ UNCHANGED <<leftObj, rightObj, leftContent, rightContent>>

\* exitCompareMode (the Compare button, in compare mode): clearDiffHighlighting
exitCompareMode ==
    /\ isCompareMode
    /\ isCompareMode' = FALSE
    /\ leftMarks' = <<>>
    /\ rightMarks' = <<>>
    /\ UNCHANGED <<leftObj, rightObj, diffResults, leftContent, rightContent>>

-----------------------------------------------------------------------------
(* The tree view of the main editor. *)

MaxKeys == 3        \* most keys of the root object of a document

TreeKeys == {"a", "b", "c"}

\* The values under the keys of the root: numbers, objects (one nested twice,
\* some holding a key name of the root again), arrays of strings, of numbers
\* and of objects
TreeValues ==
    {Num(1), Num(2), Obj(<<>>),
     Obj(<<Entry("a", Num(1))>>), Obj(<<Entry("b", Num(1))>>), Obj(<<Entry("c", Num(2))>>),
     Obj(<<Entry("c", Num(1)), Entry("b", Num(2))>>),
     Obj(<<Entry("b", Obj(<<Entry("c", Num(1))>>))>>),
     Arr(<<Str("a"), Str("b")>>), Arr(<<Num(1), Num(2)>>),
     Arr(<<Obj(<<Entry("a", Num(1))>>)>>)}

RootKeyLists ==
    {ks \in SeqsUpTo(TreeKeys, MaxKeys) : \A i, j \in 1..Len(ks) : ks[i] = ks[j] => i = j}

TreeDocs ==
    UNION {{Obj([i \in 1..Len(ks) |-> Entry(ks[i], vs[i])]) :
                vs \in [1..Len(ks) -> TreeValues]} : ks \in RootKeyLists}
    \cup {Arr(<<Str("a"), Str("b"), Str("a")>>), Arr(<<Num(1), Num(2)>>),
          Arr(<<Arr(<<Str("a")>>), Arr(<<Str("b")>>)>>)}

\* What jsonData holds when JSON.parse throws on the editor's text
ParseError == [type |-> "error", val |-> "SyntaxError"]

\* The tree view after the catch block of generateTreeView
TreeError == <<[error |-> "Invalid JSON - cannot generate tree view"]>>

InitTree ==
    /\ jsonData \in TreeDocs
    /\ editorValue \in {TextOf(jsonData, layout) : layout \in Layouts}
    /\ treeMode = FALSE
    /\ treeNodeMap = EmptyMap
    /\ treeView = <<>>

\* toggleTreeMode: switching the tree on runs generateTreeView, which builds the
\* line map of the editor's text and the tree of its value
toggleTreeMode ==
    /\ treeMode' = ~treeMode
    /\ IF ~treeMode /\ jsonData = ParseError
       THEN /\ treeView' = TreeError
            /\ UNCHANGED treeNodeMap
       ELSE IF ~treeMode
       THEN /\ treeNodeMap' = createLineMapping(editorValue, jsonData)
            /\ treeView' = createTreeHTML(treeNodeMap', jsonData, NullKey, <<>>)
       ELSE UNCHANGED <<treeNodeMap, treeView>>
    /\ UNCHANGED <<editorValue, jsonData>>

\* The main editor before a document is loaded
TreeIdle ==
    /\ editorValue = <<>>
    /\ jsonData = Null
    /\ treeMode = FALSE
    /\ treeNodeMap = EmptyMap
    /\ treeView = <<>>

-----------------------------------------------------------------------------
(* EditorManager: the validation of the main editor's text, debounced. *)

MaxChanges == 3     \* most 'change' events of a session
MaxTicks == 6       \* the event loop's time ends after this many steps

\* ui.debounceDelay, in ms
debounceDelay == 500

\* ui.autoValidate, as the constructor sets it
autoValidate == TRUE

\* The time passes in steps of half the delay
TickMs == debounceDelay \div 2

\* The texts typed into the main editor
TypedTexts == {<<>>, <<"{">>, <<"{", "}">>}

\* The formats chosen in the conversion dropdown ("" is its placeholder)
TargetFormats == {"", "yaml"}

\* JSON.parse of a text of the main editor: the empty object, or an exception
JSONparse(text) ==
    IF text \in {<<"{", "}">>, <<"{", "}", "\n">>} THEN Obj(<<>>) ELSE ParseError

\* new JSONLinter().validate(content) for a text of the main editor
validate(text) ==
    IF IsBlank(text) THEN [isValid |-> FALSE, errors |-> <<"Input is empty">>]
    ELSE IF JSONparse(text) = ParseError
    THEN [isValid |-> FALSE, errors |-> <<"Unexpected end of JSON input">>]
    ELSE [isValid |-> TRUE, errors |-> <<>>]

\* jsyaml.load of a text of the main editor: the empty object, or an exception
yamlLoad(text) == JSONparse(text)

\* jsyaml.dump of the empty object
yamlDump(data) == <<"{", "}", "\n">>

\* updateStatus(message, type)
Status(message, type) == [message |-> message, type |-> type]

\* clearTimeout left out of the handler of 'change'
keepTimers(armed, handle) == armed

\* clearTimeout(handle): the timer of that handle is no longer armed
clearTimeout(armed, handle) == {t \in armed : t.handle # handle}

InitPage ==
    /\ currentFormat = "json"
    /\ status = Status("Ready", "")
    /\ toast = ""
    /\ diffBtnDisabled = TRUE
    /\ isDiffMode = FALSE
    /\ treeToggleDisabled = FALSE
    /\ convertDisabled = FALSE
    /\ originalContent = <<>>
    /\ diffOriginalContent = <<>>

InitEdit ==
    /\ typedText = <<>>
    /\ debounceTimer = 0
    /\ timers = {}
    /\ now = 0
    /\ changeLog = <<>>
    /\ validations = <<>>

\* The handler of 'change' once the editor holds text: it clears the timer of
\* the handle it holds, if any, among those armed, and arms a new one
onChange(text, armed) ==
    /\ typedText' = text
    /\ changeLog' = Append(changeLog, [time |-> now, text |-> text])
    /\ debounceTimer' = Len(changeLog) + 1
    /\ timers' = (IF debounceTimer # 0 THEN clearTimeout(armed, debounceTimer)
                  ELSE armed)
                 \cup {[handle |-> debounceTimer', due |-> now + debounceDelay]}

\* The user changes the text of the main editor (which diff mode takes off the
\* page) and the handler of 'change' runs
change ==
    /\ ~isDiffMode
    /\ Len(changeLog) < MaxChanges
    /\ now + debounceDelay <= MaxTicks * TickMs
    /\ \E text \in TypedTexts \ {typedText} : onChange(text, timers)
    /\ UNCHANGED <<now, validations, pageVars>>

\* exitDiffMode: restoreOriginalLayout sets the main editor up again with the
\* content diff mode was entered with (setValue fires 'change'), drops the two
\* editors and the results, and enableOtherControls enables the controls
exitDiffMode(armed) ==
    /\ isDiffMode' = FALSE
    /\ isCompareMode' = FALSE
    /\ onChange(diffOriginalContent, armed)
    /\ diffResults' = [isNull |-> TRUE, changes |-> NoChanges]
    /\ leftContent' = <<>>
    /\ rightContent' = <<>>
    /\ leftMarks' = <<>>
    /\ rightMarks' = <<>>
    /\ treeToggleDisabled' = FALSE
    /\ convertDisabled' = FALSE
    /\ UNCHANGED <<leftObj, rightObj, diffOriginalContent>>

\* enterDiffMode: the two editors replace the main one, the left one with its
\* content, and disableOtherControls disables the controls
enterDiffMode ==
    /\ isDiffMode' = TRUE
    /\ diffOriginalContent' = typedText
    /\ leftContent' = typedText
    /\ rightContent' = <<>>
    /\ treeToggleDisabled' = TRUE
    /\ convertDisabled' = TRUE
    /\ UNCHANGED <<leftObj, rightObj, isCompareMode, diffResults, leftMarks, rightMarks,
                   editVars>>

\* The click on the Diff button, which a disabled button does not get
toggleDiffMode ==
    /\ ~diffBtnDisabled
    /\ IF isDiffMode
       THEN Len(changeLog) < MaxChanges /\ exitDiffMode(timers)
                /\ UNCHANGED <<now, validations>>
       ELSE enterDiffMode
    /\ UNCHANGED <<currentFormat, status, toast, diffBtnDisabled, originalContent>>

\* A timer that is due fires and its callback runs: validateJSON reads the
\* text the editor holds now and shows the outcome, and updateDiffAvailability
\* sets the Diff button and leaves diff mode on a text that is not valid.
\* (updateStats only refreshes the size shown.)
timerFires ==
    \E t \in timers :
        /\ t.due <= now
        /\ validations' =
              IF autoValidate /\ currentFormat = "json"
              THEN Append(validations,
                          [time |-> now, text |-> typedText, changes |-> Len(changeLog)])
              ELSE validations
        /\ status' =
              IF ~(autoValidate /\ currentFormat = "json") THEN status
              ELSE IF IsBlank(typedText) THEN Status("Enter JSON to validate", "")
              ELSE IF validate(typedText).isValid THEN Status("JSON is valid", "success")
              ELSE Status("Invalid JSON: " \o validate(typedText).errors[1], "error")
        /\ toast' =
              IF autoValidate /\ currentFormat = "json" /\ ~IsBlank(typedText)
                    /\ ~validate(typedText).isValid
              THEN validate(typedText).errors[1]
              ELSE toast
        /\ diffBtnDisabled' = ~(validate(typedText).isValid /\ ~IsBlank(typedText))
        /\ IF diffBtnDisabled' /\ isDiffMode
           THEN exitDiffMode(timers \ {t})
           ELSE /\ timers' = timers \ {t}
                /\ UNCHANGED <<typedText, debounceTimer, changeLog, isDiffMode,
                               treeToggleDisabled, convertDisabled, diffOriginalContent,
                               diffVars>>
        /\ UNCHANGED <<now, currentFormat, originalContent>>

\* handleConversion(targetFormat), the handler of the conversion dropdown
\* (which a disabled dropdown does not call): a text that is blank or, in the
\* JSON format, not valid is left alone; otherwise the converted text replaces
\* it (setValue fires 'change') and the dropdown is disabled
handleConversion ==
    /\ ~convertDisabled
    /\ Len(changeLog) < MaxChanges
    /\ \E targetFormat \in TargetFormats :
          LET sourceData == IF currentFormat = "json" THEN JSONparse(typedText)
                            ELSE yamlLoad(typedText)
              stays == <<typedText, debounceTimer, timers, changeLog,
                         currentFormat, convertDisabled>>
          IN  IF targetFormat = "" THEN
                  UNCHANGED <<stays, treeMode, originalContent, status, toast>>
              ELSE IF IsBlank(typedText) THEN
                  /\ toast' = "Please enter content to convert"
                  /\ UNCHANGED <<stays, treeMode, originalContent, status>>
              ELSE
                  /\ treeMode' = FALSE
                  /\ originalContent' = IF currentFormat = "json" THEN typedText
                                        ELSE originalContent
                  /\ IF currentFormat = "json" /\ ~validate(typedText).isValid THEN
                         /\ toast' = "Cannot convert invalid JSON. Please fix validation errors first."
                         /\ status' = Status("Invalid JSON: " \o validate(typedText).errors[1],
                                             "error")
                         /\ UNCHANGED stays
                     ELSE IF sourceData = ParseError THEN
                         /\ status' = Status("Conversion failed: unexpected end of the stream", "error")
                         /\ toast' = "Failed to convert: unexpected end of the stream"
                         /\ UNCHANGED stays
                     ELSE
                         /\ onChange(yamlDump(sourceData), timers)
                         /\ currentFormat' = targetFormat
                         /\ convertDisabled' = TRUE
                         /\ status' = Status("Converted to YAML", "success")
                         /\ toast' = "Successfully converted to YAML"
    /\ UNCHANGED <<now, validations, diffBtnDisabled, isDiffMode, treeToggleDisabled,
                   diffOriginalContent>>

\* The time passes
tick ==
    /\ now + TickMs <= MaxTicks * TickMs
    /\ now' = now + TickMs
    /\ UNCHANGED <<typedText, debounceTimer, timers, changeLog, validations, pageVars>>

\* The page as the constructors leave it
PageIdle == InitPage

\* The main editor untouched
EditIdle == InitEdit

-----------------------------------------------------------------------------
(* The sessions of the tool. *)

\* The linter at rest, while the editors are compared
LintIdle ==
    /\ content = <<>>
    /\ parser = [throws |-> FALSE, error |-> ErrorObject({}, <<>>, 0, 0, 0, 0)]
    /\ betterErrors = TRUE
    /\ validation = NotValidated

\* The diff view before it opens, while a text is validated
DiffIdle ==
    /\ leftObj = Null
    /\ rightObj = Null
    /\ isCompareMode = FALSE
    /\ diffResults = [isNull |-> TRUE, changes |-> NoChanges]
    /\ leftContent = <<>>
    /\ rightContent = <<>>
    /\ leftMarks = <<>>
    /\ rightMarks = <<>>

NextDiff ==
    \/ enterCompareMode /\ UNCHANGED <<lintVars, treeVars, editVars, pageVars>>
    \/ exitCompareMode /\ UNCHANGED <<lintVars, treeVars, editVars, pageVars>>

DiffSession == InitDiff /\ LintIdle /\ TreeIdle /\ EditIdle /\ PageIdle

SpecDiff == DiffSession /\ [][NextDiff]_vars

NextLint ==
    \/ validateEmpty /\ UNCHANGED <<diffVars, treeVars, editVars, pageVars>>
    \/ validateBetter /\ UNCHANGED <<diffVars, treeVars, editVars, pageVars>>
    \/ validateNative /\ UNCHANGED <<diffVars, treeVars, editVars, pageVars>>

LintSession == InitLint /\ DiffIdle /\ TreeIdle /\ EditIdle /\ PageIdle

SpecLint == LintSession /\ [][NextLint]_vars

NextTree == toggleTreeMode /\ UNCHANGED <<diffVars, lintVars, editVars, pageVars>>

TreeSession == InitTree /\ DiffIdle /\ LintIdle /\ EditIdle /\ PageIdle

SpecTree == TreeSession /\ [][NextTree]_vars

NextEdit ==
    \/ change /\ UNCHANGED <<diffVars, lintVars, treeVars>>
    \/ timerFires /\ UNCHANGED <<lintVars, treeVars>>
    \/ tick /\ UNCHANGED <<diffVars, lintVars, treeVars>>

EditSession == InitEdit /\ InitPage /\ DiffIdle /\ LintIdle /\ TreeIdle

SpecEdit == EditSession /\ [][NextEdit]_vars

\* The event loop runs a timer that is due, and the time does not stop
SpecEditFair ==
    /\ SpecEdit
    /\ WF_vars(timerFires /\ UNCHANGED <<lintVars, treeVars>>)
    /\ WF_vars(tick /\ UNCHANGED <<diffVars, lintVars, treeVars>>)

-----------------------------------------------------------------------------
(* The whole tool: a session compares documents or validates a text. *)

\* The documents whose keys hold the characters that separate the segments of
\* a record's path, or spell the path of the root
PathDocs ==
    {Num(1), Num(2),
     Obj(<<Entry("root", Num(1))>>), Obj(<<Entry("root", Num(2))>>),
     Obj(<<Entry("a", Obj(<<Entry("b", Num(1))>>))>>), Obj(<<Entry("a.b", Num(1))>>)}
    \cup {Obj(<<Entry("a.b", Num(m)), Entry("a", Obj(<<Entry("b", Num(n))>>))>>) :
              m, n \in {1, 2}}
    \cup {Obj(<<Entry("x[0]", Num(m)), Entry("x", Arr(<<Num(n)>>))>>) : m, n \in {1, 2}}

\* The diff view opened on two of these documents, pretty-printed
InitPaths ==
    /\ leftObj \in PathDocs
    /\ rightObj \in PathDocs
    /\ leftContent = TextOf(leftObj, "pretty")
    /\ rightContent = TextOf(rightObj, "pretty")
    /\ isCompareMode = FALSE
    /\ diffResults = [isNull |-> TRUE, changes |-> NoChanges]
    /\ leftMarks = <<>>
    /\ rightMarks = <<>>

PathSession == InitPaths /\ LintIdle /\ TreeIdle /\ EditIdle /\ PageIdle

\* The main editor's text as the tree view reads it: the text typed, and its
\* value
EditorFollows ==
    /\ editorValue' = typedText'
    /\ jsonData' = JSONparse(typedText')

\* The page with its main editor, empty
InitEditor ==
    /\ editorValue = <<>>
    /\ jsonData = ParseError
    /\ treeMode = FALSE
    /\ treeNodeMap = EmptyMap
    /\ treeView = <<>>

\* The page: the user types, time passes, and the Diff button, the conversion
\* dropdown and the tree toggle are used when they are enabled
NextPage ==
    \/ change /\ EditorFollows
          /\ UNCHANGED <<treeMode, treeNodeMap, treeView, diffVars, lintVars>>
    \/ timerFires /\ EditorFollows
          /\ UNCHANGED <<treeMode, treeNodeMap, treeView, lintVars>>
    \/ tick /\ UNCHANGED <<diffVars, lintVars, treeVars>>
    \/ toggleDiffMode /\ EditorFollows
          /\ UNCHANGED <<treeMode, treeNodeMap, treeView, lintVars>>
    \/ handleConversion /\ EditorFollows
          /\ UNCHANGED <<treeNodeMap, treeView, diffVars, lintVars>>
    \/ ~treeToggleDisabled /\ toggleTreeMode
          /\ UNCHANGED <<diffVars, lintVars, editVars, pageVars>>

PageSession == InitEdit /\ InitPage /\ InitEditor /\ DiffIdle /\ LintIdle

SpecPage == PageSession /\ [][NextPage]_vars

SpecPaths == PathSession /\ [][NextDiff]_vars

Init == DiffSession \/ PathSession \/ LintSession \/ TreeSession \/ EditSession
            \/ PageSession

Next == NextDiff \/ NextLint \/ NextTree \/ NextEdit \/ NextPage

Spec == Init /\ [][Next]_vars

-----------------------------------------------------------------------------
(* Properties of the diff engine, read off the last comparison. *)

Compared == ~diffResults.isNull
added == diffResults.changes.added
removed == diffResults.changes.removed
modified == diffResults.changes.modified
unchanged == diffResults.changes.unchanged

\* The (path, value) pairs of a sequence of added, removed or unchanged records
PathValues(records) ==
    {[path |-> records[i].path, value |-> records[i].value] : i \in 1..Len(records)}

\* The number of records of a sequence that carry the path p
CountAt(records, p) == Cardinality({i \in 1..Len(records) : records[i].path = p})

\* C1: comparing a JSON value with itself gives no added, no removed and no
\* modified record.
C1_IdentityHasNoChange ==
    (Compared /\ leftObj = rightObj) =>
        (added = <<>> /\ removed = <<>> /\ modified = <<>>)

\* C1 at work: an array with a repeated item and an object item, compared with
\* itself.
C1_Witness ==
    /\ Compared /\ leftObj = rightObj /\ leftObj.type = "array"
    /\ \E i, j \in 1..Len(leftObj.val) : i # j /\ leftObj.val[i] = leftObj.val[j]
    /\ \E i \in 1..Len(leftObj.val) : leftObj.val[i].type = "object"
    /\ added = <<>> /\ removed = <<>> /\ modified = <<>>

\* The paths of all the nodes of v (v itself, at path, included): the leaves and
\* the containers.
RECURSIVE NodePaths(_, _)
NodePaths(v, path) ==
    {PathOrRoot(path)} \cup
    (IF v.type = "array"
        THEN UNION {NodePaths(v.val[i], IndexPath(path, i - 1)) : i \in 1..Len(v.val)}
     ELSE IF v.type = "object"
        THEN UNION {NodePaths(v.val[i].value, KeyPath(path, v.val[i].key)) :
                        i \in 1..Len(v.val)}
     ELSE {})

\* C2 as stated: comparing a JSON value with itself records every leaf and
\* every container of the value, each once, as unchanged.
C2_EveryNodeUnchanged ==
    (Compared /\ leftObj = rightObj) =>
        \A p \in NodePaths(leftObj, "") : CountAt(unchanged, p) = 1

\* The nodes a self-comparison reaches: the leaves reached through object keys
\* alone, and the items of the arrays reached through object keys alone (each
\* item whole, the walk stopping there).
RECURSIVE ReachedNodes(_, _)
ReachedNodes(v, path) ==
    IF v.type = "array"
        THEN {[path |-> IndexPath(path, i - 1), value |-> v.val[i]] : i \in 1..Len(v.val)}
    ELSE IF v.type = "object"
        THEN UNION {ReachedNodes(v.val[i].value, KeyPath(path, v.val[i].key)) :
                        i \in 1..Len(v.val)}
    ELSE {[path |-> PathOrRoot(path), value |-> v]}

\* C2 amended: comparing a JSON value with itself records as unchanged exactly
\* the leaves reached through object keys alone and the items of the arrays
\* reached through object keys alone, each once and with its value; an object
\* or array gets no record of its own (an empty one leaves no trace), and
\* nothing below an array item is recorded.
C2_UnchangedIsReachedNodes ==
    (Compared /\ leftObj = rightObj) =>
        /\ PathValues(unchanged) = ReachedNodes(leftObj, "")
        /\ \A i, j \in 1..Len(unchanged) : unchanged[i].path = unchanged[j].path => i = j

\* C2 at work: an array of objects compared with itself has one record per item
\* and none for the leaves inside the items.
C2_Witness ==
    /\ Compared /\ leftObj = rightObj /\ leftObj.type = "array"
    /\ Len(leftObj.val) >= 2
    /\ \A i \in 1..Len(leftObj.val) : leftObj.val[i].type = "object"
    /\ Len(unchanged) = Len(leftObj.val)

\* C3: the added records of diff(A, B) are the removed records of diff(B, A) by
\* path and value, and vice versa, and the modified records of the two are
\* each other's with leftValue and rightValue swapped.
C3_DiffSymmetry ==
    Compared =>
        LET back == deepDiff(rightObj, leftObj, "")
            Swapped(m) == [m EXCEPT !.leftValue = m.rightValue, !.rightValue = m.leftValue]
            Records(seq) == {seq[i] : i \in 1..Len(seq)}
        IN  /\ PathValues(added) = PathValues(back.removed)
            /\ PathValues(removed) = PathValues(back.added)
            /\ Records(modified) = {Swapped(m) : m \in Records(back.modified)}
            /\ Len(modified) = Len(back.modified)

\* C3 at work: two arrays with a repeated item, one item more on the right.
C3_Witness ==
    /\ Compared /\ leftObj.type = "array" /\ rightObj.type = "array"
    /\ Len(leftObj.val) = 2 /\ Len(rightObj.val) = 3
    /\ \A i \in 1..3 : rightObj.val[i] = leftObj.val[1]
    /\ leftObj.val[2] # leftObj.val[1]
    /\ Len(added) = 2 /\ Len(removed) = 1

\* right is left with its items in another order
IsPermutation(left, right) ==
    /\ Len(left) = Len(right)
    /\ \E f \in [1..Len(left) -> 1..Len(left)] :
          /\ \A i, j \in 1..Len(left) : f[i] = f[j] => i = j
          /\ \A i \in 1..Len(left) : right[i] = left[f[i]]

\* C4: an array compared with a permutation of itself gives no added, removed
\* or modified record and one unchanged record per item.
C4_PermutationHasNoChange ==
    (Compared /\ leftObj.type = "array" /\ rightObj.type = "array"
        /\ IsPermutation(leftObj.val, rightObj.val)) =>
        /\ added = <<>> /\ removed = <<>> /\ modified = <<>>
        /\ Len(unchanged) = Len(leftObj.val)

\* C4 at work: three items, one of them repeated, in reverse order.
C4_Witness ==
    /\ Compared /\ leftObj.type = "array" /\ rightObj.type = "array"
    /\ Len(leftObj.val) = 3 /\ Len(rightObj.val) = 3
    /\ \A i \in 1..3 : rightObj.val[i] = leftObj.val[4 - i]
    /\ leftObj.val[1] = leftObj.val[2] /\ leftObj.val[3] # leftObj.val[1]
    /\ Len(unchanged) = 3

\* C5 as stated: two values of different types (array against object included)
\* give one modified record at 'root' with both values, and nothing else.
C5_TypeChangeIsOneModified ==
    (Compared /\ leftObj.type # rightObj.type) =>
        /\ added = <<>> /\ removed = <<>> /\ unchanged = <<>>
        /\ Len(modified) = 1
        /\ modified[1].path = "root"
        /\ modified[1].leftValue = leftObj /\ modified[1].rightValue = rightObj

\* C5 at work where typeof tells the two apart: a number against an array.
C5_Witness ==
    /\ Compared /\ leftObj.type = "number" /\ rightObj.type = "array"
    /\ Len(rightObj.val) > 0
    /\ Len(modified) = 1 /\ modified[1].type = "type_change"
    /\ added = <<>> /\ removed = <<>> /\ unchanged = <<>>

\* changes holds the records of sub, in their order, as one run of each of its
\* four sequences
HoldsRecordsOf(all, sub) ==
    \E k \in 0..Len(all) : SubSeq(all, k + 1, k + Len(sub)) = sub

\* C6 as stated: two objects compared at the root give, per key of the union of
\* their keys: one added record (right value) for a key of the right object
\* alone, one removed record (left value) for a key of the left object alone,
\* and for a key of both no record of its own but the records of the
\* comparison of the two values under the key.
C6_ObjectKeysByPresence ==
    (Compared /\ leftObj.type = "object" /\ rightObj.type = "object") =>
        \A key \in {ObjectKeys(leftObj)[i] : i \in 1..Len(leftObj.val)}
                    \cup {ObjectKeys(rightObj)[i] : i \in 1..Len(rightObj.val)} :
            IF ~HasOwn(leftObj, key) THEN
                /\ CountAt(added, key) = 1 /\ CountAt(removed, key) = 0
                /\ CountAt(modified, key) = 0 /\ CountAt(unchanged, key) = 0
                /\ [path |-> key, value |-> Get(rightObj, key)] \in PathValues(added)
            ELSE IF ~HasOwn(rightObj, key) THEN
                /\ CountAt(removed, key) = 1 /\ CountAt(added, key) = 0
                /\ CountAt(modified, key) = 0 /\ CountAt(unchanged, key) = 0
                /\ [path |-> key, value |-> Get(leftObj, key)] \in PathValues(removed)
            ELSE LET sub == deepDiff(Get(leftObj, key), Get(rightObj, key), key)
                 IN  /\ HoldsRecordsOf(added, sub.added)
                     /\ HoldsRecordsOf(removed, sub.removed)
                     /\ HoldsRecordsOf(modified, sub.modified)
                     /\ HoldsRecordsOf(unchanged, sub.unchanged)
                     /\ CountAt(added, key) = CountAt(sub.added, key)
                     /\ CountAt(removed, key) = CountAt(sub.removed, key)

\* C6 at work on keys no prototype has: one key of the left object alone, one
\* of both.
C6_Witness ==
    /\ Compared /\ leftObj.type = "object" /\ rightObj.type = "object"
    /\ HasOwn(leftObj, "a") /\ HasOwn(leftObj, "b")
    /\ HasOwn(rightObj, "b") /\ ~HasOwn(rightObj, "a")
    /\ Len(removed) = 1 /\ removed[1].path = "a" /\ removed[1].value = Get(leftObj, "a")

\* left and right have the same length and differ in the item at one index only
OneItemChanged(left, right) ==
    /\ Len(left) = Len(right)
    /\ \E i \in 1..Len(left) :
          /\ ~deepEqual(left[i], right[i])
          /\ \A j \in 1..Len(left) : j # i => left[j] = right[j]

-----------------------------------------------------------------------------
(* Properties of the error locator. *)

\* The offset of (line, column), both 1-based, in text: the lengths of the lines
\* before `line`, each with its line break, and the column less one
RECURSIVE LengthOfLines(_, _)
LengthOfLines(lines, count) ==
    IF count = 0 THEN 0 ELSE LengthOfLines(lines, count - 1) + Len(lines[count]) + 1

OffsetOf(text, line, column) == LengthOfLines(Split(text), line - 1) + column - 1

\* validate has run the parser on the text, and the parser threw its error
ParserThrew == validation.called /\ ~IsBlank(content) /\ parser.throws

\* The parser's error carries `field` (offset or index) and neither of the other
\* location fields
CarriesOnly(field) == parser.error.has \ {"message"} = {field}

\* C8: for every offset of a text, from 0 to its length, the line and column of
\* getLineColumnFromPosition are 1-based, lie in the text, and give the offset
\* back: the lengths + 1 of the lines before, plus column - 1.
C8_OffsetRoundTrip ==
    \A offset \in 0..Len(content) :
        LET lineInfo == getLineColumnFromPosition(content, Defined(offset))
        IN  /\ lineInfo.line \in 1..Len(Split(content))
            /\ lineInfo.column \in 1..(Len(Split(content)[lineInfo.line]) + 1)
            /\ OffsetOf(content, lineInfo.line, lineInfo.column) = offset

\* C8 at work: validate has located an error whose index is the end of a text
\* of two lines or more, and the location gives the index back.
C8_Witness ==
    /\ ParserThrew /\ betterErrors /\ CarriesOnly("index")
    /\ parser.error.index = Len(content)
    /\ Len(validation.errors) = 1
    /\ validation.errors[1].line >= 2 /\ validation.errors[1].column >= 2
    /\ OffsetOf(content, validation.errors[1].line, validation.errors[1].column)
          = parser.error.index

\* A native parser's message for an error at the offset n
PositionMessage(n) ==
    Words(<<"Unexpected", "token", "}", "in", "JSON", "at", "position">>) \o <<Number(n)>>

\* C9 as stated: an error with offset = N, or with index = N, N from 0 to the
\* length of the text, is given by parseBetterError the line and column that
\* parseError gives an error whose message holds 'position N'.
C9_LocatorEquivalence ==
    \A field \in {"offset", "index"} :
        (/\ ParserThrew /\ betterErrors /\ CarriesOnly(field)
         /\ Field(parser.error, field).n \in 0..Len(content)) =>
            LET native == parseError(
                    ErrorObject({"message"}, PositionMessage(Field(parser.error, field).n),
                                0, 0, 0, 0), content)
            IN  /\ Len(validation.errors) = 1
                /\ validation.errors[1].line = native.line
                /\ validation.errors[1].column = native.column

\* C9 at work where the two agree: an offset past the first line.
C9_Witness ==
    /\ ParserThrew /\ betterErrors /\ CarriesOnly("offset")
    /\ parser.error.offset \in 2..Len(content)
    /\ Len(validation.errors) = 1 /\ validation.errors[1].line = 2
    /\ LET native == parseError(
               ErrorObject({"message"}, PositionMessage(parser.error.offset), 0, 0, 0, 0),
               content)
       IN  native.line = 2 /\ native.column = validation.errors[1].column

\* C10 as stated: whatever fields the parser's error carries and whatever the
\* text, validate, parseBetterError and parseError return a diagnostic and do
\* not throw.
C10_LocatorNeverThrows ==
    /\ validation.called => ~validation.threw
    /\ ParserThrew =>
          /\ ~parseBetterError(parser.error, content).threw
          /\ ~parseError(parser.error, content).threw
          /\ Len(validation.errors) = 1

\* C10 at work in parseBetterError: an error with no field at all is reported
\* by the default message alone.
C10_Witness ==
    /\ ParserThrew /\ betterErrors
    /\ parser.error.has = {}
    /\ validation.errors = <<PlainDiagnostic(DefaultMessage)>>

-----------------------------------------------------------------------------
(* Properties of the tree view's line map. *)

\* The tree view is on: the line map and the tree of the editor's text are built
TreeBuilt == treeMode

\* The objects of v, each with its path
RECURSIVE ObjectsOf(_, _)
ObjectsOf(v, path) ==
    (IF v.type = "object" THEN {[path |-> path, object |-> v]} ELSE {})
    \cup (IF IsContainer(v)
          THEN UNION {ObjectsOf(MemberValue(v, i),
                                Append(path, IF IsArray(v) THEN IndexSeg(i - 1)
                                             ELSE KeySeg(v.val[i].key))) :
                          i \in 1..Len(v.val)}
          ELSE {})

\* The full path of key i of the object o
FullKey(o, i) == JoinPath(Append(o.path, KeySeg(o.object.val[i].key)))

\* C11 as stated: in a pretty-printed document (one key per line) the lines the
\* line map holds under the full paths of the keys of one object increase
\* strictly in the order of the keys.
C11_SiblingLinesIncrease ==
    (TreeBuilt /\ editorValue = TextOf(jsonData, "pretty")) =>
        \A o \in ObjectsOf(jsonData, <<>>) :
            \A i, j \in 1..Len(o.object.val) :
                (i < j /\ MapHas(treeNodeMap, FullKey(o, i))
                       /\ MapHas(treeNodeMap, FullKey(o, j))) =>
                    treeNodeMap[FullKey(o, i)] < treeNodeMap[FullKey(o, j)]

\* C11 at work where no key name occurs twice: the second key of the root
\* follows the nested object of the first.
C11_Witness ==
    /\ TreeBuilt /\ editorValue = TextOf(jsonData, "pretty")
    /\ jsonData = Obj(<<Entry("a", Obj(<<Entry("b", Num(1))>>)), Entry("c", Num(2))>>)
    /\ treeNodeMap["a"] = 1 /\ treeNodeMap["a.b"] = 2 /\ treeNodeMap["c"] = 4

\* The four lines of the scenario: '{' / '  "a": 1,' / '  "b": {"c": 2}' / '}'
C12_Text ==
    Join(<< <<"{">>,
            <<" ", " ", Quote, "a", Quote, ":", " ", "1", ",">>,
            <<" ", " ", Quote, "b", Quote, ":", " ", "{", Quote, "c", Quote, ":", " ", "2", "}">>,
            <<"}">> >>)

\* The node of the tree view at a path
NodeAt(path) == {treeView[i] : i \in {k \in 1..Len(treeView) : treeView[k].path = path}}

\* C12 as stated: for the text of the scenario the line map holds line 1 for
\* the path a and line 2 for the path b.c, and the tree node of b.c carries
\* line 2.
C12_ScenarioLines ==
    (TreeBuilt /\ editorValue = C12_Text) =>
        /\ MapGet(treeNodeMap, "a") = Defined(1)
        /\ MapGet(treeNodeMap, "b.c") = Defined(2)
        /\ \A node \in NodeAt(<<KeySeg("b"), KeySeg("c")>>) : node.line = Defined(2)

\* C12 at work on the part the map does hold: the text of the scenario parses
\* to {"a": 1, "b": {"c": 2}}, and its keys a and b are on lines 1 and 2.
C12_Witness ==
    /\ TreeBuilt /\ editorValue = C12_Text
    /\ jsonData = Obj(<<Entry("a", Num(1)), Entry("b", Obj(<<Entry("c", Num(2))>>))>>)
    /\ MapGet(treeNodeMap, "a") = Defined(1) /\ MapGet(treeNodeMap, "b") = Defined(2)
    /\ NodeAt(<<KeySeg("b"), KeySeg("c")>>) # {}

-----------------------------------------------------------------------------
(* Properties of the marks of a comparison. *)

\* The two editors hold the texts {"x":[1,2]} and {"x":[1,2,3]}
C13_Texts ==
    /\ leftContent = <<"{", Quote, "x", Quote, ":", "[", "1", ",", "2", "]", "}">>
    /\ rightContent = <<"{", Quote, "x", Quote, ":", "[", "1", ",", "2", ",", "3", "]", "}">>

\* The result of the scenario: one added record at x[2] with the value 3
C13_OneAdded ==
    /\ Len(diffResults.changes.added) = 1
    /\ diffResults.changes.added[1].path = "x[2]"
    /\ diffResults.changes.added[1].value = Num(3)
    /\ diffResults.changes.removed = <<>>
    /\ diffResults.changes.modified = <<>>

\* C13 as stated: comparing the text {"x":[1,2]} with the text {"x":[1,2,3]}
\* gives one added record at x[2] with the value 3 and no removed or modified
\* record, and marks exactly one line of the right editor and none of the left.
C13_ScenarioMarks ==
    (Compared /\ isCompareMode /\ C13_Texts) =>
        /\ C13_OneAdded
        /\ Len(rightMarks) = 1
        /\ leftMarks = <<>>

\* C13 at work on the part that does hold: the two texts are compared, the
\* result has the one added record at x[2], and the left editor has no mark.
C13_Witness ==
    /\ Compared /\ isCompareMode /\ C13_Texts
    /\ leftObj = Obj(<<Entry("x", Arr(<<Num(1), Num(2)>>))>>)
    /\ rightObj = Obj(<<Entry("x", Arr(<<Num(1), Num(2), Num(3)>>))>>)
    /\ C13_OneAdded
    /\ leftMarks = <<>>

\* The classes of the marks of an editor
ClassesOf(marks) == {marks[i].className : i \in 1..Len(marks)}

-----------------------------------------------------------------------------
(* Properties of the debounced validation. *)

\* The runs of validateJSON that saw exactly the first k changes
RunsAfter(k) == {i \in 1..Len(validations) : validations[i].changes = k}

\* The last change has been validated
LastChangeValidated == RunsAfter(Len(changeLog)) # {}

\* The state part of C15: one timer at most is armed, and it is the one of
\* the handle; a run of validateJSON comes debounceDelay or more after the
\* last change it saw and reads the text of that change; no two runs saw the
\* same last change; no run falls between two changes less than debounceDelay
\* apart; and with no timer armed the last change has been validated.
C15_OneRunPerBurst ==
    /\ Cardinality(timers) <= 1
    /\ \A t \in timers :
          /\ t.handle = debounceTimer
          /\ t.due = changeLog[Len(changeLog)].time + debounceDelay
    /\ \A i \in 1..Len(validations) :
          LET run == validations[i]
          IN  /\ run.changes \in 1..Len(changeLog)
              /\ run.text = changeLog[run.changes].text
              /\ run.time >= changeLog[run.changes].time + debounceDelay
    /\ \A k \in 1..Len(changeLog) : Cardinality(RunsAfter(k)) <= 1
    /\ \A k \in 1..(Len(changeLog) - 1) :
          changeLog[k + 1].time - changeLog[k].time < debounceDelay
              => RunsAfter(k) = {}
    /\ (timers = {} /\ changeLog # <<>>) => LastChangeValidated

-----------------------------------------------------------------------------
(* Properties of the diagnostics of the linter. *)

\* The parser's error carries an offset or an index, every one of them 0 or
\* less, and neither a line nor a column
CarriesOffsetAtMostZero ==
    /\ parser.error.has \ {"message"} # {}
    /\ parser.error.has \ {"message"} \subseteq {"offset", "index"}
    /\ \A field \in parser.error.has \ {"message"} : Field(parser.error, field).n <= 0

\* C16 as stated: an error with an offset or index of 0 or less and neither
\* line nor column is located at line 1, column 1, whatever the text.
C16_OffsetAtMostZeroIsOrigin ==
    (ParserThrew /\ betterErrors /\ CarriesOffsetAtMostZero) =>
        /\ Len(validation.errors) = 1
        /\ validation.errors[1].line = 1
        /\ validation.errors[1].column = 1

\* C16 at work where it holds: an index of 0 on a text of two lines is
\* located at line 1, column 1.
C16_Witness ==
    /\ ParserThrew /\ betterErrors /\ CarriesOnly("index")
    /\ parser.error.index = 0
    /\ Len(Split(content)) >= 2
    /\ Len(validation.errors) = 1
    /\ validation.errors[1].line = 1 /\ validation.errors[1].column = 1

\* The locator has a position to resolve: with the library loaded, the line
\* and column fields or an offset or index field; without it, a message with
\* 'position N' and no 'line N' before it is looked at
PositionKnown ==
    IF betterErrors
    THEN \/ {"line", "column"} \subseteq parser.error.has
         \/ parser.error.has \cap {"offset", "index"} # {}
    ELSE /\ "message" \in parser.error.has
         /\ MatchNumberAfter(parser.error.message, "position").defined
         /\ ~MatchNumberAfter(parser.error.message, "line").defined

\* C17 as stated: whenever the locator resolves a position, the diagnostic
\* holds the context: the excerpt of the line and the caret line.
C17_PositionGivesContext ==
    (ParserThrew /\ PositionKnown) =>
        /\ Len(validation.errors) = 1
        /\ validation.errors[1].hasContext

\* C17 at work where it holds: an offset past the first line, resolved by
\* parseBetterError to a line and column, with the excerpt of that line.
C17_Witness ==
    /\ ParserThrew /\ betterErrors /\ CarriesOnly("offset")
    /\ parser.error.offset \in 2..Len(content)
    /\ Len(validation.errors) = 1
    /\ validation.errors[1].line = 2
    /\ validation.errors[1].hasContext
    /\ validation.errors[1].context = Split(content)[2]

\* The line of the text a diagnostic names ('' if the text has no such line)
TargetLine(d) == LineOrEmpty(Split(content), d.line - 1)

\* C18 as stated: in a diagnostic with context the number of spaces before
\* the caret is not negative and not more than the length of the excerpt, and
\* the caret stands under the character of the line at the reported column,
\* whatever line of the text and whatever column the parser reports.
C18_CaretWithinContext ==
    (/\ ParserThrew /\ Len(validation.errors) = 1 /\ validation.errors[1].hasContext
     /\ validation.errors[1].line \in 1..Len(Split(content))
     /\ validation.errors[1].column >= 1) =>
        LET d == validation.errors[1]
        IN  /\ d.pointer >= 0
            /\ d.pointer <= Len(d.context)
            /\ d.column \in 1..Len(TargetLine(d)) =>
                  /\ d.pointer + 1 <= Len(d.context)
                  /\ d.context[d.pointer + 1] = TargetLine(d)[d.column]

\* C18 at work where it holds: the parser reports the last column of the
\* second line, and the caret stands under the last character of the excerpt.
C18_Witness ==
    /\ ParserThrew /\ betterErrors
    /\ {"line", "column"} \subseteq parser.error.has
    /\ Len(validation.errors) = 1 /\ validation.errors[1].hasContext
    /\ validation.errors[1].line = 2
    /\ Len(Split(content)) >= 2
    /\ validation.errors[1].column = Len(Split(content)[2])
    /\ validation.errors[1].column >= 2
    /\ validation.errors[1].pointer = validation.errors[1].column - 1
    /\ validation.errors[1].context[validation.errors[1].pointer + 1] = "}"

-----------------------------------------------------------------------------
(* Properties of deepEqual. *)

\* Structural equality of two JSON values: equal primitives, arrays of equal
\* length with pairwise equal elements, or objects (no arrays) with the same
\* keys and pairwise equal values
RECURSIVE StructurallyEqual(_, _)
StructurallyEqual(a, b) ==
    IF a.type # b.type THEN FALSE
    ELSE IF a.type = "array" THEN
        /\ Len(a.val) = Len(b.val)
        /\ \A i \in 1..Len(a.val) : StructurallyEqual(a.val[i], b.val[i])
    ELSE IF a.type = "object" THEN
        /\ {a.val[i].key : i \in 1..Len(a.val)} = {b.val[i].key : i \in 1..Len(b.val)}
        /\ \A i \in 1..Len(a.val) : \A j \in 1..Len(b.val) :
              a.val[i].key = b.val[j].key
                  => StructurallyEqual(a.val[i].value, b.val[j].value)
    ELSE a = b

\* The values of a comparison: the two documents, and the items of the two
\* when both are arrays (the pairs diffArrays hands to deepEqual)
ValuesCompared ==
    {leftObj, rightObj}
    \cup (IF IsArray(leftObj) /\ IsArray(rightObj)
          THEN {leftObj.val[i] : i \in 1..Len(leftObj.val)}
               \cup {rightObj.val[j] : j \in 1..Len(rightObj.val)}
          ELSE {})

\* C19 as stated: deepEqual is structural equality, so it is false of an
\* array and an object, and it is reflexive, symmetric and transitive.
C19_DeepEqualIsStructural ==
    Compared =>
        /\ \A a, b \in ValuesCompared :
              /\ deepEqual(a, b) = StructurallyEqual(a, b)
              /\ (IsArray(a) /\ b.type = "object") => ~deepEqual(a, b)
              /\ deepEqual(a, a)
              /\ deepEqual(a, b) = deepEqual(b, a)
        /\ \A a, b, c \in ValuesCompared :
              (deepEqual(a, b) /\ deepEqual(b, c)) => deepEqual(a, c)

\* C19 at work where it holds: two arrays whose items diffArrays compares,
\* an object among them that deepEqual finds in both and a number it finds
\* in one only.
C19_Witness ==
    /\ Compared
    /\ leftObj = Arr(<<Num(1), Obj(<<Entry("a", Num(1))>>)>>)
    /\ rightObj = Arr(<<Obj(<<Entry("a", Num(1))>>), Num(2)>>)
    /\ deepEqual(leftObj.val[2], rightObj.val[1])
    /\ ~deepEqual(leftObj.val[1], rightObj.val[2])
    /\ ~deepEqual(leftObj, rightObj)
    /\ Len(unchanged) = 1 /\ unchanged[1].value = Obj(<<Entry("a", Num(1))>>)

-----------------------------------------------------------------------------
(* Properties of the scoped lookup of an object key. *)

\* The number of lines the members before member i take in the pretty text
RECURSIVE LinesBefore(_, _)
LinesBefore(v, i) ==
    IF i <= 1 THEN 0
    ELSE LinesBefore(v, i - 1) + Len(Pretty(MemberValue(v, i - 1), 0))

\* The member of v a segment of a path names (1-based)
MemberAt(v, seg) ==
    CHOOSE i \in 1..Len(v.val) :
        IF v.type = "object" THEN v.val[i].key = seg.name ELSE ToString(i - 1) = seg.name

\* The line (from 0) on which the value at a path begins in the pretty text of
\* v, when v begins on the line `start`: the line of its key and of its
\* opening brace
RECURSIVE OpenLine(_, _, _)
OpenLine(v, path, start) ==
    IF path = <<>> THEN start
    ELSE LET i == MemberAt(v, path[1])
         IN  OpenLine(MemberValue(v, i), Tail(path), start + 1 + LinesBefore(v, i))

\* The line of the closing brace of an object that opens on the line open
CloseLine(object, open) == open + Len(Pretty(object, 0)) - 1

\* The path has keys only
KeysOnly(path) == \A i \in 1..Len(path) : path[i].kind = "key"

\* C20 as stated: for a key of a nested object, findObjectKeyLineWithContext
\* returns -1 or a line after the line of the parent's opening brace (the
\* line of the parent's key) and not after the line of its closing brace.
C20_LookupInsideParent ==
    (TreeBuilt /\ editorValue = TextOf(jsonData, "pretty")) =>
        \A o \in ObjectsOf(jsonData, <<>>) :
            (o.path # <<>> /\ KeysOnly(o.path)) =>
                \A i \in 1..Len(o.object.val) :
                    LET line == findObjectKeyLineWithContext(
                                    Split(editorValue), KeySeg(o.object.val[i].key), o.path)
                        open == OpenLine(jsonData, o.path, 0)
                    IN  \/ line = NotFound
                        \/ /\ line > open
                           /\ line <= CloseLine(o.object, open)

\* C20 at work where it holds: the key c of the object under a.b is found on
\* its own line, inside the object, and the line map holds that line.
C20_Witness ==
    /\ TreeBuilt /\ editorValue = TextOf(jsonData, "pretty")
    /\ jsonData = Obj(<<Entry("a", Obj(<<Entry("b", Obj(<<Entry("c", Num(1))>>))>>))>>)
    /\ OpenLine(jsonData, <<KeySeg("a"), KeySeg("b")>>, 0) = 2
    /\ findObjectKeyLineWithContext(Split(editorValue), KeySeg("c"),
                                    <<KeySeg("a"), KeySeg("b")>>) = 3
    /\ MapGet(treeNodeMap, "a.b.c") = Defined(3)

-----------------------------------------------------------------------------
(* Properties of the entries of the line map. *)

\* The line holds the key name as a key: '"key":' somewhere in it
HoldsKey(line, key) ==
    \E p \in 1..(Len(line) - 3) :
        /\ line[p] = Quote /\ line[p + 1] = key /\ line[p + 2] = Quote
        /\ line[p + 3] = ":"

\* The lines (from 0) of the editor's text that hold the key name as a key
LinesOfKey(key) ==
    {i \in 0..(Len(Split(editorValue)) - 1) : HoldsKey(Split(editorValue)[i + 1], key)}

\* C21 as stated: an entry of the line map under a bare key name holds the
\* line of the first occurrence of that key name in the text.
C21_BareKeyIsFirstOccurrence ==
    TreeBuilt =>
        \A key \in TreeKeys :
            MapHas(treeNodeMap, key) =>
                /\ treeNodeMap[key] \in LinesOfKey(key)
                /\ \A i \in LinesOfKey(key) : treeNodeMap[key] <= i

\* C21 at work where it holds: the key b occurs twice in a pretty-printed
\* document of objects, and the map holds its first line under b.
C21_Witness ==
    /\ TreeBuilt /\ editorValue = TextOf(jsonData, "pretty")
    /\ jsonData = Obj(<<Entry("a", Obj(<<Entry("b", Num(1))>>)), Entry("b", Num(2))>>)
    /\ LinesOfKey("b") = {2, 4}
    /\ treeNodeMap["b"] = 2

\* The arrays of v, each with its path
RECURSIVE ArraysOf(_, _)
ArraysOf(v, path) ==
    (IF v.type = "array" THEN {[path |-> path, array |-> v]} ELSE {})
    \cup (IF IsContainer(v)
          THEN UNION {ArraysOf(MemberValue(v, i),
                               Append(path, IF IsArray(v) THEN IndexSeg(i - 1)
                                            ELSE KeySeg(v.val[i].key))) :
                          i \in 1..Len(v.val)}
          ELSE {})

\* The array holds scalars only: strings, numbers, booleans or null
ScalarsOnly(array) == \A i \in 1..Len(array.val) : ~IsContainer(array.val[i])

\* C22 as stated: in a pretty-printed text, for an array of scalars, one on
\* a line, findArrayElementLine returns for every index the line of that
\* element: the line of the opening bracket plus 1 plus the index.
C22_ScalarElementLines ==
    (TreeBuilt /\ editorValue = TextOf(jsonData, "pretty")) =>
        \A a \in ArraysOf(jsonData, <<>>) :
            ScalarsOnly(a.array) =>
                \A i \in 0..(Len(a.array.val) - 1) :
                    findArrayElementLine(Split(editorValue), a.path, i)
                        = OpenLine(jsonData, a.path, 0) + 1 + i

\* C22 at work where it holds: an array of two strings under a key, whose
\* elements are found on the two lines after the bracket.
C22_Witness ==
    /\ TreeBuilt /\ editorValue = TextOf(jsonData, "pretty")
    /\ jsonData = Obj(<<Entry("a", Arr(<<Str("a"), Str("b")>>))>>)
    /\ findArrayElementLine(Split(editorValue), <<KeySeg("a")>>, 0) = 2
    /\ findArrayElementLine(Split(editorValue), <<KeySeg("a")>>, 1) = 3
    /\ MapGet(treeNodeMap, "a.1") = Defined(3)

\* The paths of the nodes of v below the node at path
RECURSIVE NodesBelow(_, _)
NodesBelow(v, path) ==
    IF IsContainer(v)
    THEN UNION {LET p == Append(path, IF IsArray(v) THEN IndexSeg(i - 1)
                                      ELSE KeySeg(v.val[i].key))
                IN  {p} \cup NodesBelow(MemberValue(v, i), p) : i \in 1..Len(v.val)}
    ELSE {}

\* The string the line map keeps the full path of a node under
FullPathKey(path) ==
    IF Len(path) = 1 /\ path[1].kind = "index" THEN "." \o path[1].name
    ELSE JoinPath(path)

\* C23 as stated: in a pretty-printed text every entry of the line map under
\* the full path of a node holds the line on which the key or the element of
\* that node is written; a node that is not located has no entry.
C23_EntriesHoldOwnLine ==
    (TreeBuilt /\ editorValue = TextOf(jsonData, "pretty")) =>
        \A p \in NodesBelow(jsonData, <<>>) :
            MapHas(treeNodeMap, FullPathKey(p)) =>
                treeNodeMap[FullPathKey(p)] = OpenLine(jsonData, p, 0)

\* C23 at work where it holds: the three keys of a document with a nested
\* object are each entered with their own line.
C23_Witness ==
    /\ TreeBuilt /\ editorValue = TextOf(jsonData, "pretty")
    /\ jsonData = Obj(<<Entry("b", Obj(<<Entry("c", Num(2))>>)), Entry("a", Num(1))>>)
    /\ \A p \in NodesBelow(jsonData, <<>>) :
          /\ MapHas(treeNodeMap, FullPathKey(p))
          /\ treeNodeMap[FullPathKey(p)] = OpenLine(jsonData, p, 0)
    /\ treeNodeMap["b.c"] = 2 /\ treeNodeMap["a"] = 4

\* The paths of the object keys of the document
KeyNodes == {p \in NodesBelow(jsonData, <<>>) : p[Len(p)].kind = "key"}

\* The key at the end of the path is written once in the text, so its line
\* is not in doubt
LocatedOnce(p) == Cardinality(LinesOfKey(p[Len(p)].name)) = 1

\* C24 as stated: in a pretty-printed text every object key whose line is
\* not in doubt has an entry under its full path in the line map, also a key
\* that comes after or sits inside an array of objects or of arrays.
C24_LocatedKeysHaveEntries ==
    (TreeBuilt /\ editorValue = TextOf(jsonData, "pretty")) =>
        \A p \in KeyNodes : LocatedOnce(p) => MapHas(treeNodeMap, FullPathKey(p))

\* C24 at work where it holds: a document of nested objects with three keys,
\* each written once, and an entry for each of the three full paths.
C24_Witness ==
    /\ TreeBuilt /\ editorValue = TextOf(jsonData, "pretty")
    /\ jsonData = Obj(<<Entry("a", Obj(<<Entry("c", Num(1)), Entry("b", Num(2))>>))>>)
    /\ Cardinality(KeyNodes) = 3
    /\ \A p \in KeyNodes : LocatedOnce(p) /\ MapHas(treeNodeMap, FullPathKey(p))
    /\ treeNodeMap["a.b"] = 3

-----------------------------------------------------------------------------
(* Properties of the lines of the tree nodes. *)

\* The line map has an entry for the node's own path: under the joined path
\* or, for an array element, under the path of the array, '.', and the index
HasOwnEntry(path) ==
    \/ MapHas(treeNodeMap, JoinPath(path))
    \/ /\ path[Len(path)].kind = "index"
       /\ MapHas(treeNodeMap, JoinPath(SubSeq(path, 1, Len(path) - 1))
                                  \o "." \o path[Len(path)].name)

\* C25 as stated: a tree node whose own path has no entry in the line map is
\* given no line.
C25_NoEntryNoLine ==
    TreeBuilt =>
        \A k \in 1..Len(treeView) :
            (treeView[k].path # <<>> /\ ~HasOwnEntry(treeView[k].path)) =>
                treeView[k].line = Undefined

\* C25 at work where it holds: the elements of an array of numbers have no
\* entry in the map, and their nodes have no line.
C25_Witness ==
    /\ TreeBuilt /\ editorValue = TextOf(jsonData, "pretty")
    /\ jsonData = Obj(<<Entry("b", Arr(<<Num(1), Num(2)>>))>>)
    /\ ~HasOwnEntry(<<KeySeg("b"), IndexSeg(0)>>)
    /\ \A node \in NodeAt(<<KeySeg("b"), IndexSeg(0)>>) : node.line = Undefined
    /\ NodeAt(<<KeySeg("b"), IndexSeg(0)>>) # {}

-----------------------------------------------------------------------------
(* Properties of the lines of array elements in the compared editors. *)

\* The characters of the record path of a node: a key after '.', an index
\* between brackets
RECURSIVE RecordPathChars(_)
RecordPathChars(path) ==
    IF path = <<>> THEN <<>>
    ELSE LET before == RecordPathChars(SubSeq(path, 1, Len(path) - 1))
             last == path[Len(path)]
         IN  IF last.kind = "index" THEN before \o <<"[", last.name, "]">>
             ELSE IF before = <<>> THEN CharsOf(last.name)
             ELSE before \o <<".">> \o CharsOf(last.name)

\* In the pretty text of doc, every element of every array of scalars that is
\* the root or stored under a key is resolved to the line that holds it
ElementsResolved(doc, text) ==
    \A rec \in ArraysOf(doc, <<>>) :
        (ScalarsOnly(rec.array)
            /\ (rec.path = <<>> \/ rec.path[Len(rec.path)].kind = "key")) =>
            \A i \in 1..Len(rec.array.val) :
                findLineForPath(RecordPathChars(Append(rec.path, IndexSeg(i - 1))), text)
                    = Defined(OpenLine(doc, Append(rec.path, IndexSeg(i - 1)), 0))

\* C26 as stated: in a compared editor with pretty-printed text, one element
\* per line, findLineForPath resolves the path key[i] to the line of the i-th
\* element of the array under key, and [i] to the line of the i-th element of
\* a root array; the line of the opening bracket is never counted.
C26_ElementPathsResolve ==
    Compared =>
        /\ leftContent = TextOf(leftObj, "pretty") => ElementsResolved(leftObj, leftContent)
        /\ rightContent = TextOf(rightObj, "pretty") => ElementsResolved(rightObj, rightContent)

\* C26 at work where it holds: a root array of two scalars or more is compared
\* with an empty array, and each added element is marked on its own line.
C26_Witness ==
    /\ Compared /\ isCompareMode
    /\ rightContent = TextOf(rightObj, "pretty")
    /\ IsArray(rightObj) /\ Len(rightObj.val) >= 2 /\ ScalarsOnly(rightObj)
    /\ leftObj = Arr(<<>>)
    /\ ElementsResolved(rightObj, rightContent)
    /\ \A i \in 1..Len(rightObj.val) :
           \E m \in 1..Len(rightMarks) :
               rightMarks[m] = [line |-> i, className |-> "diff-added"]

-----------------------------------------------------------------------------
(* Properties of the paths of the records. *)

\* The path string deepDiff builds along a sequence of segments
RECURSIVE SerializedPath(_)
SerializedPath(segments) ==
    IF segments = <<>> THEN ""
    ELSE LET path == SerializedPath(SubSeq(segments, 1, Len(segments) - 1))
             last == segments[Len(segments)]
         IN  IF last.kind = "index"
             THEN IndexPath(path, CHOOSE i \in 0..MaxLen : ToString(i) = last.name)
             ELSE KeyPath(path, last.name)

\* The sequences of segments at which the comparison of left and right leaves
\* a record: the places where deepDiff stops
RECURSIVE RecordSegments(_, _, _)
RecordSegments(left, right, segments) ==
    IF TypeOf(left) # TypeOf(right) THEN {segments}
    ELSE IF IsArray(left) /\ IsArray(right) THEN
        {Append(segments, IndexSeg(i - 1)) : i \in 1..Len(left.val)}
        \cup {Append(segments, IndexSeg(j - 1)) :
                 j \in (1..Len(right.val)) \ FirstPass(left, right, "", 1, {}, {}, <<>>).usedR}
    ELSE IF TypeOf(left) = "object" /\ left.type # "null" /\ right.type # "null" THEN
        UNION {IF HasProperty(left, key) /\ HasProperty(right, key)
               THEN RecordSegments(Get(left, key), Get(right, key),
                                   Append(segments, KeySeg(key)))
               ELSE {Append(segments, KeySeg(key))} :
                   key \in {ObjectKeys(left)[i] : i \in 1..Len(left.val)}
                           \cup {ObjectKeys(right)[i] : i \in 1..Len(right.val)}}
    ELSE {segments}

AllRecords == added \o removed \o modified \o unchanged

\* The paths the records of the comparison carry are the serialized paths of
\* RecordSegments
RecordsAreAtSegments ==
    {AllRecords[i].path : i \in 1..Len(AllRecords)}
        = {PathOrRoot(SerializedPath(p)) : p \in RecordSegments(leftObj, rightObj, <<>>)}

RecordPathsAreSerialized == Compared => RecordsAreAtSegments

\* C27 as stated: the records of a comparison carry the same path string only
\* if they denote the same sequence of segments; distinct structural paths
\* never serialize to the same string.
C27_PathsAreDistinct ==
    Compared =>
        \A p, q \in RecordSegments(leftObj, rightObj, <<>>) :
            PathOrRoot(SerializedPath(p)) = PathOrRoot(SerializedPath(q)) => p = q

\* C27 at work where it holds: {"a": {"b": 1}} against {"a.b": 1} gives a
\* removed record at the key a and an added one at the key a.b, with
\* different paths.
C27_Witness ==
    /\ Compared /\ RecordsAreAtSegments
    /\ leftObj = Obj(<<Entry("a", Obj(<<Entry("b", Num(1))>>))>>)
    /\ rightObj = Obj(<<Entry("a.b", Num(1))>>)
    /\ RecordSegments(leftObj, rightObj, <<>>) = {<<KeySeg("a")>>, <<KeySeg("a.b")>>}
    /\ removed[1].path = "a" /\ added[1].path = "a.b"

-----------------------------------------------------------------------------
(* Properties of the entry points of the page on a text that is not valid. *)

\* The main editor holds a text that is not valid JSON, and the debounced
\* check has run on it
InvalidChecked ==
    /\ currentFormat = "json"
    /\ ~IsBlank(typedText) /\ ~validate(typedText).isValid
    /\ changeLog # <<>> /\ timers = {}

\* The status element shows the diagnostic of the editor's text
DiagnosticShown ==
    status = Status("Invalid JSON: " \o validate(typedText).errors[1], "error")

\* On such a text the Diff button is disabled, diff mode is off, the
\* diagnostic is shown, and no step converts the text or changes the format
DiffAndConversionClosed ==
    InvalidChecked =>
        /\ diffBtnDisabled /\ ~isDiffMode /\ DiagnosticShown
        /\ currentFormat' = currentFormat
        /\ typedText' \in TypedTexts

C28_DiffAndConversionGuarded == [][DiffAndConversionClosed]_vars

\* C28 as stated: in every state where the editor's text is invalid JSON and
\* the debounced check has run, the Diff button is disabled and diff mode is
\* off, handleConversion converts nothing and leaves text and format alone,
\* tree mode cannot be switched on, and the diagnostic text is shown.
C28_InvalidClosesEntryPoints ==
    [][DiffAndConversionClosed /\ (InvalidChecked /\ ~treeMode => ~treeMode')]_vars

\* C28 at work where it holds: handleConversion has refused the text '{',
\* which stays in the editor with the diagnostic shown, the Diff button
\* disabled, and diff mode and tree mode off.
C28_Witness ==
    /\ InvalidChecked /\ typedText = <<"{">>
    /\ toast = "Cannot convert invalid JSON. Please fix validation errors first."
    /\ DiagnosticShown
    /\ diffBtnDisabled /\ ~isDiffMode /\ ~treeMode

-----------------------------------------------------------------------------
(* Properties of the pairing of array items. *)

\* Two arrays are compared at the root
ArraysCompared == Compared /\ IsArray(leftObj) /\ IsArray(rightObj)

\* The indices (from 0) of the items of an array that have a record
IndicesIn(records, array) ==
    {i \in 0..(Len(array.val) - 1) : CountAt(records, IndexPath("", i)) >= 1}

\* C29: when two arrays are compared, every left index has exactly one record,
\* unchanged or removed; every right index is paired with exactly one unchanged
\* left item, deep-equal to it, or has exactly one added record; so
\* |unchanged| + |removed| = length(L) and |unchanged| + |added| = length(R),
\* and no item is paired twice.
C29_EveryItemOnce ==
    ArraysCompared =>
        LET paired == IndicesIn(unchanged, leftObj)
            partners == (0..(Len(rightObj.val) - 1)) \ IndicesIn(added, rightObj)
        IN  /\ \A i \in 0..(Len(leftObj.val) - 1) :
                   CountAt(unchanged, IndexPath("", i))
                       + CountAt(removed, IndexPath("", i)) = 1
            /\ \A j \in 0..(Len(rightObj.val) - 1) : CountAt(added, IndexPath("", j)) <= 1
            /\ Len(unchanged) + Len(removed) = Len(leftObj.val)
            /\ Len(unchanged) + Len(added) = Len(rightObj.val)
            /\ \E f \in [paired -> partners] :
                   /\ \A i, k \in paired : f[i] = f[k] => i = k
                   /\ \A j \in partners : \E i \in paired : f[i] = j
                   /\ \A i \in paired : deepEqual(leftObj.val[i + 1], rightObj.val[f[i] + 1])

\* C29 at work: the left array repeats an item, and the comparison has
\* unchanged, removed and added records.
C29_Witness ==
    /\ ArraysCompared
    /\ Len(leftObj.val) = MaxLen /\ Len(rightObj.val) = MaxLen
    /\ leftObj.val[1] = leftObj.val[2]
    /\ unchanged # <<>> /\ removed # <<>> /\ added # <<>>

\* C30: after the three passes no value removed from an array is deep-equal
\* to a value added to that array, arrays with repeated items included.
C30_PairingIsMaximal ==
    ArraysCompared =>
        \A i \in 1..Len(removed) : \A j \in 1..Len(added) :
            /\ ~deepEqual(removed[i].value, added[j].value)
            /\ ~StructurallyEqual(removed[i].value, added[j].value)

\* C30 at work: the left array holds an item twice and the right one holds it
\* once, so one of the two is removed, next to an added item.
C30_Witness ==
    /\ ArraysCompared
    /\ leftObj.val = <<Num(1), Num(1)>>
    /\ Len(rightObj.val) = 2 /\ rightObj.val[2] = Num(1) /\ rightObj.val[1] # Num(1)
    /\ Len(unchanged) = 1 /\ Len(removed) = 1 /\ Len(added) = 1
    /\ removed[1].value = Num(1)

====
